---- MODULE Spec2Model ----
(***************************************************************************)
(* A model of the chat-session synchronization core of catthu/chatter.     *)
(*                                                                         *)
(* Part 1: WebSocketTransport (connection lifecycle, reconnect backoff,    *)
(* heartbeat, subscriber registries, outbound frames, inbound routing).    *)
(* Every socket the transport creates is modelled with its readyState and  *)
(* the events the browser still owes it; the handlers connect() attaches   *)
(* to a socket close over the transport (`this`), not over the socket, so  *)
(* they run whether or not the socket is still the current one.            *)
(***************************************************************************)
EXTENDS Integers, Sequences, FiniteSets, TLC

\* ------------------------------------------------------------------ bounds

\* Sockets one run may create (new WebSocket(...) calls).
MaxSockets == 3
\* config.reconnect.maxAttempts is drawn from 1..MaxAttemptsBound.
MaxAttemptsBound == 2
\* config.reconnect.maxDelay of the runs: small enough that the cap applies
\* at the second retry (1000 * 2^1 > 1500).
SmallMaxDelay == 1500

\* The longest list handed to addMessages.
MaxBatch == 2

\* The longest list of content blocks handed to onPartialContent.
MaxBlocks == 1

\* The longest list of messages handed to build.
MaxItems == 3
\* config.reconnect.baseDelay: the constructor's default.
DefaultBaseDelay == 1000

Sessions == {"s1", "s2"}
\* The strings a caller may pass to subscribe as sessionId.
SessionIds == Sessions \cup {""}
Callbacks == {"c1", "c2"}
Contents == {"hello"}
\* The key the global registry is announced under ({all: true}).
All == "*"
Topics == Sessions \cup {All}

SocketIds == 1..MaxSockets

\* The listener functions handed to MessageStore.subscribe and to
\* StreamingStateMachine.subscribe, and what the code of one does when it is
\* called: return, or first call the unsubscribe function of a listener, or
\* subscribe a listener.
Listeners == {"l1", "l2"}
Behaviours ==
  {[op |-> "return", arg |-> ""]}
  \cup [op : {"unsubscribe", "subscribe"}, arg : Listeners]
Passive == [l \in Listeners |-> [op |-> "return", arg |-> ""]]
\* ... or, for a listener of the Message Store, call clear() when it is handed
\* a list that is not empty.
StoreBehaviours == {[op |-> "return", arg |-> ""], [op |-> "clear", arg |-> ""]}

\* ContentBlock[] | null
NullContent == [null |-> TRUE, blocks |-> <<>>]
INITIAL_STATE == [isStreaming |-> FALSE, partialContent |-> NullContent, sessionId |-> "null"]
NoParams == [given |-> FALSE]
NoRawEvent == [k |-> "none"]
NotNormalized == [called |-> FALSE]
NotBuilt == [built |-> FALSE, items |-> <<>>]

\* ------------------------------------------------------------------- state

VARIABLES
  config,              \* the constructor's config (reconnect.*, url validity)
  status,              \* this.status
  ws,                  \* this.ws: a socket id, 0 for null
  reconnectAttempts,   \* this.reconnectAttempts
  reconnectTimer,      \* 0: no pending timeout; d > 0: a pending timeout of d ms
  heartbeatTimer,      \* TRUE: the setInterval is running
  sessionSubscribers,  \* sessionId -> set of callbacks ({}: no entry in the Map)
  allSubscribers,      \* set of callbacks
  sock,                \* socket id -> [ph, prom]: the socket and its connect() promise
  nsock,               \* sockets created so far
  issued,              \* the unsubscribe closures handed out: <<topic, callback>>
  out,                 \* frames written to a socket by the last step
  ret,                 \* how the last call returned to its caller
  delivered,           \* what the last step handed to the subscribers
  serverSubs,          \* topics announced on the current socket (subscribe minus unsubscribe)
  shut,                \* disconnect() has returned and connect() was not called since
  trace                \* what a status listener saw since the last open

\* InMemoryMessageStore
VARIABLES
  messages,            \* this.messages: the Map's entries [key, msg] in insertion order
  listeners,           \* this.listeners: the Set's members in insertion order
  notifications,       \* listener calls of the last store call: [listener, snapshot]
  call                 \* the last store call: its name and the id it was given

transportVars == <<config, status, ws, reconnectAttempts, reconnectTimer, heartbeatTimer,
                   sessionSubscribers, allSubscribers, sock, nsock, issued, out, ret,
                   delivered, serverSubs, shut, trace>>

\* The listeners of the store and of the streaming state machine
VARIABLES
  behaviour            \* listener -> what its code does with the registry when called

\* DefaultStreamingStateMachine
VARIABLES
  state,               \* this.state
  streamListeners,     \* this.listeners: the Set's members in insertion order
  streamNotifications, \* listener calls of the last call: [listener, state]
  streamCall           \* the last call: its name and its arguments

\* DefaultTimelineBuilder
VARIABLES
  params,              \* the params of the last build call
  timeline             \* what it returned

\* DefaultNormalizer, called on its own
VARIABLES
  rawInput,            \* the value a caller hands to normalize
  normalized           \* what the call did: returned a value or threw

storeVars == <<messages, listeners, notifications, call>>

streamVars == <<state, streamListeners, streamNotifications, streamCall>>

timelineVars == <<params, timeline>>

normalizerVars == <<rawInput, normalized>>

\* Everything but the store, everything but the streaming state machine,
\* everything but the timeline builder.
storeRest == <<transportVars, behaviour, streamVars, timelineVars, normalizerVars>>
streamRest == <<transportVars, behaviour, storeVars, timelineVars, normalizerVars>>
timelineRest == <<transportVars, behaviour, storeVars, streamVars, normalizerVars>>

\* packages/core/src/state, which the transport does not touch.
stateVars == <<behaviour, storeVars, streamVars, timelineVars, normalizerVars>>

vars == <<transportVars, stateVars>>

\* ----------------------------------------------------------------- helpers

Min(a, b) == IF a <= b THEN a ELSE b

RECURSIVE Pow2(_)
Pow2(n) == IF n = 0 THEN 1 ELSE 2 * Pow2(n - 1)

\* The configs a run is constructed with. urlOk = FALSE: new URL(config.url)
\* throws inside connect().
Configs ==
  [enabled : BOOLEAN, maxAttempts : 1..MaxAttemptsBound,
   baseDelay : {DefaultBaseDelay}, maxDelay : {SmallMaxDelay}, urlOk : BOOLEAN]

\* WebSocket.readyState of socket s. An error event is fired only once the
\* socket is CLOSED; "failed" is a socket whose error event has been handled
\* and whose close event is still owed.
readyState(s) ==
  CASE sock[s].ph = "connecting" -> "CONNECTING"
    [] sock[s].ph = "open" -> "OPEN"
    [] sock[s].ph \in {"closingC", "closingO"} -> "CLOSING"
    [] OTHER -> "CLOSED"

\* Outbound frames.
Frame(t, sid, all, c) == [type |-> t, sessionId |-> sid, all |-> all, content |-> c]
SubscribeFrame(sid) == Frame("subscribe", sid, FALSE, "")
UnsubscribeFrame(sid) == Frame("unsubscribe", sid, FALSE, "")
SubscribeAllFrame == Frame("subscribe", "", TRUE, "")
UnsubscribeAllFrame == Frame("unsubscribe", "", TRUE, "")
PingFrame == Frame("ping", "", FALSE, "")
MessageFrame(m) == Frame("message", m.sessionId, FALSE, m.content)

OutgoingMessages == [sessionId : Sessions, content : Contents]

\* sendRaw(data): the frames it writes (none unless the current socket is OPEN).
sendRaw(data) ==
  IF ws # 0 /\ readyState(ws) = "OPEN" THEN <<[sock |-> ws, frame |-> data]>> ELSE <<>>

\* setStatus called with each element of calls in turn, starting from status
\* cur: the statuses the listeners are notified of ...
RECURSIVE Notified(_, _)
Notified(cur, calls) ==
  IF calls = <<>> THEN <<>>
  ELSE IF Head(calls) = cur THEN Notified(cur, Tail(calls))
  ELSE <<Head(calls)>> \o Notified(Head(calls), Tail(calls))

\* ... and the status left.
setStatus(cur, calls) == IF calls = <<>> THEN cur ELSE calls[Len(calls)]

\* The topics the server holds for the current socket after frames were written.
Announce(subs, frames) ==
  IF frames = <<>> THEN subs
  ELSE LET f == frames[1].frame
           topic == IF f.all THEN All ELSE f.sessionId
       IN  IF f.type = "subscribe" THEN subs \cup {topic}
           ELSE IF f.type = "unsubscribe" THEN subs \ {topic}
           ELSE subs

\* The status listener's record of the run since the last open: the statuses
\* it was notified of and the delays of the reconnects scheduled. It is kept
\* (live) from an open that finds no other socket and no reconnect timer
\* outstanding, for as long as only the reconnect machinery acts: a call of
\* connect() or disconnect(), a clean close or an error of an established
\* socket ends it.
Dead == [live |-> FALSE, log |-> <<>>, delays |-> <<>>]
TraceAppend(notes, ds) ==
  IF trace.live THEN [trace EXCEPT !.log = @ \o notes, !.delays = @ \o ds] ELSE trace

\* JavaScript values: undefined, null, numbers, strings, booleans, and objects
\* known by a name.
Undefined == [k |-> "undefined", n |-> 0, s |-> ""]
Null == [k |-> "null", n |-> 0, s |-> ""]
Number(n) == [k |-> "number", n |-> n, s |-> ""]
Str(s) == [k |-> "string", n |-> 0, s |-> s]
Bool(b) == [k |-> "boolean", n |-> IF b THEN 1 ELSE 0, s |-> ""]
Object(o) == [k |-> "object", n |-> 0, s |-> o]

\* An object that cannot be converted to a primitive, as the JSON text
\* {"toString": null} parses to: its toString is not callable and valueOf
\* returns the object, so String() of it throws a TypeError.
Unprintable == Object("{toString: null}")

\* String(value), for the values it returns on.
String(v) ==
  IF v.k = "undefined" THEN "undefined"
  ELSE IF v.k = "null" THEN "null"
  ELSE IF v.k = "number" THEN ToString(v.n)
  ELSE IF v.k = "boolean" THEN (IF v.n = 1 THEN "true" ELSE "false")
  ELSE IF v.k = "object" THEN "[object Object]"
  ELSE v.s

\* !value
Falsy(v) ==
  \/ v.k \in {"undefined", "null"}
  \/ v.k = "number" /\ v.n = 0
  \/ v.k = "string" /\ v.s = ""
  \/ v.k = "boolean" /\ v.n = 0

\* a || b
Or(a, b) == IF Falsy(a) THEN b ELSE a

\* a ?? b
Coalesce(a, b) == IF a.k \in {"undefined", "null"} THEN b ELSE a

\* The raw events that are objects: the fields normalize reads, Undefined for
\* a field the object does not have.
EventFields ==
  {"type", "sessionId", "session_id", "payload", "data", "sequence", "timestamp",
   "createdAt"}
RawObject(fields) == [k |-> "object", fields |-> fields]
NoFields == [f \in EventFields |-> Undefined]

\* Inbound frames (event.data): text that is not JSON, the JSON value null, a
\* JSON number, and JSON objects with a type and possibly a sessionId.
RawFrames ==
  {[kind |-> "unparseable", type |-> "", sessionId |-> ""],
   [kind |-> "null", type |-> "", sessionId |-> ""],
   [kind |-> "number", type |-> "", sessionId |-> ""]}
  \cup [kind : {"object"}, type : {"pong", "message"}, sessionId : Sessions \cup {""}]

NoFrame == [kind |-> "none", type |-> "", sessionId |-> ""]

\* JSON.parse(data), for the frames it returns on.
JSONparse(raw) ==
  IF raw.kind = "null" THEN Null
  ELSE IF raw.kind = "number" THEN Number(1)
  ELSE RawObject([NoFields EXCEPT
                    !.type = Str(raw.type),
                    !.sessionId = IF raw.sessionId = "" THEN Undefined
                                  ELSE Str(raw.sessionId)])

\* What a call of normalize does: it returns null (ok false), returns an
\* event (ok true), or throws.
NullEvent ==
  [ok |-> FALSE, thrown |-> FALSE, type |-> "", sessionId |-> "", payload |-> Undefined,
   sequence |-> Undefined, timestamp |-> ""]
Thrown == [NullEvent EXCEPT !.thrown = TRUE]

\* What one step handed to the subscribers: the frame it handled (NoFrame when
\* the step is not a message event), whether the normalizer was called, whether
\* the catch block ran, the event, and the callbacks invoked once each from the
\* session registry and from the global registry.
Dropped(raw, normalized_, caught) ==
  [raw |-> raw, normalized |-> normalized_, caught |-> caught,
   event |-> NullEvent, session |-> {}, global |-> {}]

NoDelivery == Dropped(NoFrame, FALSE, FALSE)

\* The clock reading of new Date().toISOString() while frames are routed.
Now == "now"

\* DefaultNormalizer.normalize(rawEvent), the clock reading now.
normalizeAt(rawEvent, now) ==
  IF Falsy(rawEvent) \/ rawEvent.k # "object" THEN NullEvent
  ELSE LET event == rawEvent.fields
           type == Or(event.type, Str("message"))
           sessionId == Or(Or(event.sessionId, event.session_id), Str(""))
           timestamp == Or(Or(event.timestamp, event.createdAt), Str(now))
       IN  IF Unprintable \in {type, sessionId, timestamp} THEN Thrown
           ELSE [ok |-> TRUE, thrown |-> FALSE,
                 type |-> String(type),
                 sessionId |-> String(sessionId),
                 payload |-> Coalesce(Coalesce(event.payload, event.data), rawEvent),
                 sequence |-> IF event.sequence.k = "number" THEN event.sequence
                              ELSE Undefined,
                 timestamp |-> String(timestamp)]

\* this.normalizer.normalize(raw) in handleMessage.
normalize(raw) == normalizeAt(JSONparse(raw), Now)

\* handleMessage(data) routing the event to the global callbacks only when no
\* callback is registered for its session.
handleMessage_eitherOr(raw) ==
  IF raw.kind \in {"unparseable", "null"} THEN Dropped(raw, FALSE, TRUE)
  ELSE IF raw.kind = "object" /\ raw.type = "pong" THEN Dropped(raw, FALSE, FALSE)
  ELSE LET event == normalize(raw)
           cbs == IF event.sessionId \in SessionIds
                  THEN sessionSubscribers[event.sessionId] ELSE {}
       IN  IF ~event.ok THEN Dropped(raw, TRUE, FALSE)
           ELSE [raw |-> raw, normalized |-> TRUE, caught |-> FALSE, event |-> event,
                 session |-> cbs,
                 global |-> IF cbs = {} THEN allSubscribers ELSE {}]

\* handleMessage(data) without the test for pong.
handleMessage_noPongTest(raw) ==
  IF raw.kind \in {"unparseable", "null"} THEN Dropped(raw, FALSE, TRUE)
  ELSE LET event == normalize(raw)
       IN  IF ~event.ok THEN Dropped(raw, TRUE, FALSE)
           ELSE [raw |-> raw, normalized |-> TRUE, caught |-> FALSE, event |-> event,
                 session |-> IF event.sessionId \in SessionIds
                             THEN sessionSubscribers[event.sessionId] ELSE {},
                 global |-> allSubscribers]

\* handleMessage(data) without the test for a null event.
handleMessage_noNullTest(raw) ==
  IF raw.kind \in {"unparseable", "null"} THEN Dropped(raw, FALSE, TRUE)
  ELSE IF raw.kind = "object" /\ raw.type = "pong" THEN Dropped(raw, FALSE, FALSE)
  ELSE LET event == normalize(raw)
       IN  [raw |-> raw, normalized |-> TRUE, caught |-> FALSE, event |-> event,
            session |-> IF event.sessionId \in SessionIds
                        THEN sessionSubscribers[event.sessionId] ELSE {},
            global |-> allSubscribers]

\* handleMessage(data). JSON.parse throws on text that is not JSON, and
\* raw.type throws on the value null; the catch block logs either and returns.
\* Callbacks are taken to return normally.
handleMessage(raw) ==
  IF raw.kind \in {"unparseable", "null"} THEN Dropped(raw, FALSE, TRUE)
  ELSE IF raw.kind = "object" /\ raw.type = "pong" THEN Dropped(raw, FALSE, FALSE)
  ELSE LET event == normalize(raw)
       IN  IF ~event.ok THEN Dropped(raw, TRUE, FALSE)
           ELSE [raw |-> raw, normalized |-> TRUE, caught |-> FALSE, event |-> event,
                 session |-> IF event.sessionId \in SessionIds
                             THEN sessionSubscribers[event.sessionId] ELSE {},
                 global |-> allSubscribers]

\* handleDisconnect() with the budget test off by one (> for >=).
handleDisconnect_offByOne ==
  IF ~config.enabled THEN [set |-> "disconnected", schedule |-> FALSE]
  ELSE IF reconnectAttempts > config.maxAttempts THEN [set |-> "error", schedule |-> FALSE]
  ELSE [set |-> "reconnecting", schedule |-> TRUE]

\* handleDisconnect(): the status it sets and whether it schedules a reconnect.
handleDisconnect ==
  IF ~config.enabled THEN [set |-> "disconnected", schedule |-> FALSE]
  ELSE IF reconnectAttempts >= config.maxAttempts THEN [set |-> "error", schedule |-> FALSE]
  ELSE [set |-> "reconnecting", schedule |-> TRUE]

\* scheduleReconnect() computing the delay from the counter after its increment.
scheduleReconnect_afterIncrement ==
  Min(config.baseDelay * Pow2(reconnectAttempts + 1), config.maxDelay)

\* scheduleReconnect() without the cap.
scheduleReconnect_uncapped ==
  config.baseDelay * Pow2(reconnectAttempts)

\* scheduleReconnect(): the delay of the timeout it sets.
scheduleReconnect ==
  Min(config.baseDelay * Pow2(reconnectAttempts), config.maxDelay)

\* ws.close(): what it does to socket s.
close(s) ==
  [sock EXCEPT ![s].ph = CASE @ = "connecting" -> "closingC"
                           [] @ = "open" -> "closingO"
                           [] OTHER -> @]

\* ------------------------------------------------------------------ actions

\* The store, the streaming state machine and the timeline builder as
\* constructed, with listeners that return at once.
IdleState ==
  /\ messages = <<>>
  /\ listeners = <<>>
  /\ notifications = <<>>
  /\ call = [op |-> "none", id |-> ""]
  /\ behaviour = Passive
  /\ state = INITIAL_STATE
  /\ streamListeners = <<>>
  /\ streamNotifications = <<>>
  /\ streamCall = [op |-> "none"]
  /\ timeline = NotBuilt
  /\ normalized = NotNormalized

\* No caller holds params for build.
StateInit ==
  /\ IdleState
  /\ params = NoParams
  /\ rawInput = NoRawEvent

\* The transport as constructed.
TransportInit ==
  /\ status = "disconnected"
  /\ ws = 0
  /\ reconnectAttempts = 0
  /\ reconnectTimer = 0
  /\ heartbeatTimer = FALSE
  /\ sessionSubscribers = [sid \in SessionIds |-> {}]
  /\ allSubscribers = {}
  /\ sock = [s \in SocketIds |-> [ph |-> "unused", prom |-> "none"]]
  /\ nsock = 0
  /\ issued = {}
  /\ out = <<>>
  /\ ret = "none"
  /\ delivered = NoDelivery
  /\ serverSubs = {}
  /\ shut = FALSE
  /\ trace = Dead

Init ==
  /\ config \in Configs
  /\ TransportInit
  /\ StateInit

\* The setStatus calls of connect()'s body.
connectCalls ==
  IF status \in {"connected", "connecting"} THEN <<>>
  ELSE IF ~config.urlOk THEN <<"connecting", "error">>
  ELSE <<"connecting">>

\* connect(): the body, as a caller or the reconnect timer runs it.
connectBody ==
  /\ status' = setStatus(status, connectCalls)
  /\ IF status \in {"connected", "connecting"} \/ ~config.urlOk
     THEN UNCHANGED <<ws, sock, nsock, serverSubs>>
     ELSE /\ nsock < MaxSockets
          /\ nsock' = nsock + 1
          /\ ws' = nsock + 1
          /\ sock' = [sock EXCEPT ![nsock + 1] = [ph |-> "connecting", prom |-> "pending"]]
          /\ serverSubs' = {}

\* A caller calls connect().
connect ==
  /\ connectBody
  /\ ret' = IF status \in {"connected", "connecting"} THEN "connect:resolved"
            ELSE IF ~config.urlOk THEN "connect:rejected"
            ELSE "connect:pending"
  /\ shut' = FALSE
  /\ trace' = Dead
  /\ out' = <<>>
  /\ delivered' = NoDelivery
  /\ UNCHANGED stateVars
  /\ UNCHANGED <<config, reconnectAttempts, reconnectTimer, heartbeatTimer,
                 sessionSubscribers, allSubscribers, issued>>

\* The timeout set by scheduleReconnect fires.
reconnectTimerFires ==
  /\ reconnectTimer # 0
  /\ reconnectTimer' = 0
  /\ reconnectAttempts' = reconnectAttempts + 1
  /\ connectBody
  /\ trace' = TraceAppend(Notified(status, connectCalls), <<>>)
  /\ ret' = "none"
  /\ out' = <<>>
  /\ delivered' = NoDelivery
  /\ UNCHANGED stateVars
  /\ UNCHANGED <<config, heartbeatTimer, sessionSubscribers, allSubscribers,
                 issued, shut>>

\* ws.onopen of socket s.
onopen(s) ==
  /\ sock[s].ph = "connecting"
  /\ sock' = [sock EXCEPT ![s].ph = "open",
                          ![s].prom = IF @ = "pending" THEN "resolved" ELSE @]
  /\ reconnectAttempts' = 0
  /\ status' = setStatus(status, <<"connected">>)
  /\ heartbeatTimer' = TRUE
  /\ trace' = IF /\ \A t \in SocketIds \ {s} : sock[t].ph \in {"unused", "closed"}
                 /\ reconnectTimer = 0
              THEN [live |-> TRUE, log |-> <<"connected">>, delays |-> <<>>]
              ELSE Dead
  /\ ret' = "none"
  /\ out' = <<>>
  /\ delivered' = NoDelivery
  /\ UNCHANGED stateVars
  /\ UNCHANGED <<config, ws, reconnectTimer, sessionSubscribers, allSubscribers,
                 nsock, issued, serverSubs, shut>>

\* ws.onerror without the reject(error) of the pending connect().
onerror_neverRejects(s) ==
  /\ sock[s].ph \in {"connecting", "closingC", "open", "closingO"}
  /\ sock' = [sock EXCEPT ![s].ph = "failed"]
  /\ status' = setStatus(status, <<"error">>)
  /\ trace' = IF sock[s].ph = "connecting"
              THEN TraceAppend(Notified(status, <<"error">>), <<>>)
              ELSE Dead
  /\ ret' = "none"
  /\ out' = <<>>
  /\ delivered' = NoDelivery
  /\ UNCHANGED stateVars
  /\ UNCHANGED <<config, ws, reconnectAttempts, reconnectTimer, heartbeatTimer,
                 sessionSubscribers, allSubscribers, nsock, issued, serverSubs, shut>>

\* ws.onerror of socket s: the connection failed, or close() was called before
\* it was established. The close event of the socket follows as a step of its
\* own: the rejection handlers of connect()'s promise run, and a status
\* listener may call the transport, between the two events.
onerror(s) ==
  /\ sock[s].ph \in {"connecting", "closingC", "open", "closingO"}
  /\ sock' = [sock EXCEPT ![s].ph = "failed",
                          ![s].prom = IF status = "connecting" /\ @ = "pending"
                                      THEN "rejected" ELSE @]
  /\ status' = setStatus(status, <<"error">>)
  /\ trace' = IF sock[s].ph = "connecting"
              THEN TraceAppend(Notified(status, <<"error">>), <<>>)
              ELSE Dead
  /\ ret' = "none"
  /\ out' = <<>>
  /\ delivered' = NoDelivery
  /\ UNCHANGED stateVars
  /\ UNCHANGED <<config, ws, reconnectAttempts, reconnectTimer, heartbeatTimer,
                 sessionSubscribers, allSubscribers, nsock, issued, serverSubs, shut>>

\* ws.onclose running handleDisconnect() whatever event.wasClean is.
onclose_ignoresWasClean(s, wasClean) ==
  /\ \/ sock[s].ph \in {"open", "closingO"}
     \/ sock[s].ph = "failed" /\ ~wasClean
  /\ sock' = [sock EXCEPT ![s].ph = "closed"]
  /\ heartbeatTimer' = FALSE
  /\ status' = setStatus(status, <<handleDisconnect.set>>)
  /\ reconnectTimer' = IF handleDisconnect.schedule
                       THEN scheduleReconnect ELSE reconnectTimer
  /\ trace' = Dead
  /\ ret' = "none"
  /\ out' = <<>>
  /\ delivered' = NoDelivery
  /\ UNCHANGED stateVars
  /\ UNCHANGED <<config, ws, reconnectAttempts, sessionSubscribers, allSubscribers,
                 nsock, issued, serverSubs, shut>>

\* ws.onclose of socket s with event.wasClean. A socket that failed closes
\* uncleanly.
onclose(s, wasClean) ==
  /\ \/ sock[s].ph \in {"open", "closingO"}
     \/ sock[s].ph = "failed" /\ ~wasClean
  /\ sock' = [sock EXCEPT ![s].ph = "closed"]
  /\ heartbeatTimer' = FALSE
  /\ IF wasClean
     THEN /\ status' = setStatus(status, <<"disconnected">>)
          /\ UNCHANGED reconnectTimer
          /\ trace' = Dead
     ELSE /\ status' = setStatus(status, <<handleDisconnect.set>>)
          /\ reconnectTimer' = IF handleDisconnect.schedule
                               THEN scheduleReconnect ELSE reconnectTimer
          /\ trace' = TraceAppend(Notified(status, <<handleDisconnect.set>>),
                                  IF handleDisconnect.schedule
                                  THEN <<scheduleReconnect>> ELSE <<>>)
  /\ ret' = "none"
  /\ out' = <<>>
  /\ delivered' = NoDelivery
  /\ UNCHANGED stateVars
  /\ UNCHANGED <<config, ws, reconnectAttempts, sessionSubscribers, allSubscribers,
                 nsock, issued, serverSubs, shut>>

\* ws.onmessage of socket s.
onmessage(s, raw) ==
  /\ sock[s].ph \in {"open", "closingO"}
  /\ delivered' = handleMessage(raw)
  /\ UNCHANGED stateVars
  /\ ret' = "none"
  /\ out' = <<>>
  /\ UNCHANGED <<config, status, ws, reconnectAttempts, reconnectTimer, heartbeatTimer,
                 sessionSubscribers, allSubscribers, sock, nsock, issued, serverSubs,
                 shut, trace>>

\* The heartbeat interval fires.
heartbeatTick ==
  /\ heartbeatTimer
  /\ out' = IF status = "connected" THEN sendRaw(PingFrame) ELSE <<>>
  /\ ret' = "none"
  /\ delivered' = NoDelivery
  /\ UNCHANGED stateVars
  /\ UNCHANGED <<config, status, ws, reconnectAttempts, reconnectTimer, heartbeatTimer,
                 sessionSubscribers, allSubscribers, sock, nsock, issued, serverSubs,
                 shut, trace>>

\* disconnect() without clearReconnectTimer().
disconnect_keepsTimer ==
  /\ heartbeatTimer' = FALSE
  /\ sock' = IF ws # 0 THEN close(ws) ELSE sock
  /\ ws' = 0
  /\ status' = setStatus(status, <<"disconnected">>)
  /\ serverSubs' = {}
  /\ shut' = TRUE
  /\ trace' = Dead
  /\ ret' = "none"
  /\ out' = <<>>
  /\ delivered' = NoDelivery
  /\ UNCHANGED stateVars
  /\ UNCHANGED <<config, reconnectAttempts, reconnectTimer, sessionSubscribers,
                 allSubscribers, nsock, issued>>

\* A caller calls disconnect().
disconnect ==
  /\ heartbeatTimer' = FALSE
  /\ reconnectTimer' = 0
  /\ sock' = IF ws # 0 THEN close(ws) ELSE sock
  /\ ws' = 0
  /\ status' = setStatus(status, <<"disconnected">>)
  /\ serverSubs' = {}
  /\ shut' = TRUE
  /\ trace' = Dead
  /\ ret' = "none"
  /\ out' = <<>>
  /\ delivered' = NoDelivery
  /\ UNCHANGED stateVars
  /\ UNCHANGED <<config, reconnectAttempts, sessionSubscribers, allSubscribers,
                 nsock, issued>>

\* A caller calls subscribe(sid, cb).
subscribe(sid, cb) ==
  /\ out' = IF sessionSubscribers[sid] = {} THEN sendRaw(SubscribeFrame(sid)) ELSE <<>>
  /\ sessionSubscribers' = [sessionSubscribers EXCEPT ![sid] = @ \cup {cb}]
  /\ issued' = issued \cup {<<sid, cb>>}
  /\ serverSubs' = Announce(serverSubs, out')
  /\ ret' = "none"
  /\ delivered' = NoDelivery
  /\ UNCHANGED stateVars
  /\ UNCHANGED <<config, status, ws, reconnectAttempts, reconnectTimer, heartbeatTimer,
                 allSubscribers, sock, nsock, shut, trace>>

\* A caller calls the function subscribe(sid, cb) returned.
unsubscribe(sid, cb) ==
  /\ <<sid, cb>> \in issued
  /\ sessionSubscribers' = [sessionSubscribers EXCEPT ![sid] = @ \ {cb}]
  /\ out' = IF sessionSubscribers[sid] # {} /\ sessionSubscribers[sid] \ {cb} = {}
            THEN sendRaw(UnsubscribeFrame(sid)) ELSE <<>>
  /\ serverSubs' = Announce(serverSubs, out')
  /\ ret' = "none"
  /\ delivered' = NoDelivery
  /\ UNCHANGED stateVars
  /\ UNCHANGED <<config, status, ws, reconnectAttempts, reconnectTimer, heartbeatTimer,
                 allSubscribers, sock, nsock, issued, shut, trace>>

\* A caller calls subscribeAll(cb).
subscribeAll(cb) ==
  /\ allSubscribers' = allSubscribers \cup {cb}
  /\ out' = IF Cardinality(allSubscribers \cup {cb}) = 1
            THEN sendRaw(SubscribeAllFrame) ELSE <<>>
  /\ issued' = issued \cup {<<All, cb>>}
  /\ serverSubs' = Announce(serverSubs, out')
  /\ ret' = "none"
  /\ delivered' = NoDelivery
  /\ UNCHANGED stateVars
  /\ UNCHANGED <<config, status, ws, reconnectAttempts, reconnectTimer, heartbeatTimer,
                 sessionSubscribers, sock, nsock, shut, trace>>

\* A caller calls the function subscribeAll(cb) returned.
unsubscribeAll(cb) ==
  /\ <<All, cb>> \in issued
  /\ allSubscribers' = allSubscribers \ {cb}
  /\ out' = IF allSubscribers \ {cb} = {} THEN sendRaw(UnsubscribeAllFrame) ELSE <<>>
  /\ serverSubs' = Announce(serverSubs, out')
  /\ ret' = "none"
  /\ delivered' = NoDelivery
  /\ UNCHANGED stateVars
  /\ UNCHANGED <<config, status, ws, reconnectAttempts, reconnectTimer, heartbeatTimer,
                 sessionSubscribers, sock, nsock, issued, shut, trace>>

\* send(m) testing only that a socket exists, not the status.
send_ignoresStatus(m) ==
  /\ IF ws = 0
     THEN /\ ret' = "send:rejected"
          /\ out' = <<>>
     ELSE /\ ret' = "send:resolved"
          /\ out' = sendRaw(MessageFrame(m))
  /\ delivered' = NoDelivery
  /\ UNCHANGED stateVars
  /\ UNCHANGED <<config, status, ws, reconnectAttempts, reconnectTimer, heartbeatTimer,
                 sessionSubscribers, allSubscribers, sock, nsock, issued, serverSubs,
                 shut, trace>>

\* A caller calls send(m).
send(m) ==
  /\ IF status # "connected" \/ ws = 0
     THEN /\ ret' = "send:rejected"
          /\ out' = <<>>
     ELSE /\ ret' = "send:resolved"
          /\ out' = sendRaw(MessageFrame(m))
  /\ delivered' = NoDelivery
  /\ UNCHANGED stateVars
  /\ UNCHANGED <<config, status, ws, reconnectAttempts, reconnectTimer, heartbeatTimer,
                 sessionSubscribers, allSubscribers, sock, nsock, issued, serverSubs,
                 shut, trace>>

\* The connection lifecycle: the caller's connect(), disconnect() and send(),
\* the two timers and the socket's open, error and close events. The
\* subscriber registries stay empty: no action of Next reads them.
Next ==
  \/ connect
  \/ disconnect
  \/ reconnectTimerFires
  \/ heartbeatTick
  \/ \E s \in SocketIds : onopen(s)
  \/ \E s \in SocketIds : onerror(s)
  \/ \E s \in SocketIds, wasClean \in BOOLEAN : onclose(s, wasClean)
  \/ \E m \in OutgoingMessages : send(m)

Spec == Init /\ [][Next]_vars

\* The lifecycle with the sockets' events delivered: an event a socket has
\* pending (open, error or close) is eventually handled. Callers and timers
\* are under no obligation.
SocketFairness ==
  \A s \in SocketIds :
    /\ WF_vars(onopen(s) \/ onerror(s))
    /\ WF_vars(\E wasClean \in BOOLEAN : onclose(s, wasClean))

SpecLive == Init /\ [][Next]_vars /\ SocketFairness

\* The registries are explored for one config: reconnect enabled with a
\* budget of one attempt, and a valid url.
InitDefault ==
  /\ Init
  /\ config = [enabled |-> TRUE, maxAttempts |-> 1, baseDelay |-> DefaultBaseDelay,
               maxDelay |-> SmallMaxDelay, urlOk |-> TRUE]

Lifecycle ==
  \/ connect
  \/ disconnect
  \/ reconnectTimerFires
  \/ \E s \in SocketIds : onopen(s)
  \/ \E s \in SocketIds : onerror(s)
  \/ \E s \in SocketIds, wasClean \in BOOLEAN : onclose(s, wasClean)

\* The per-session registry: subscribe(sid, cb) and the functions it returns,
\* for one session and two callbacks, over the whole connection lifecycle.
NextSession ==
  \/ Lifecycle
  \/ \E cb \in Callbacks : subscribe("s1", cb)
  \/ \E cb \in Callbacks : unsubscribe("s1", cb)

SpecSession == InitDefault /\ [][NextSession]_vars

\* The global registry: subscribeAll(cb) and the functions it returns.
NextGlobal ==
  \/ Lifecycle
  \/ \E cb \in Callbacks : subscribeAll(cb)
  \/ \E cb \in Callbacks : unsubscribeAll(cb)

SpecGlobal == InitDefault /\ [][NextGlobal]_vars

\* Inbound frames: both registries (two callbacks for session s1, one for
\* session s2, two global ones), on a transport that connects, opens and
\* disconnects, with message events of every socket that has opened (the one
\* in use and those disconnect() has closed).
NextRouting ==
  \/ connect
  \/ disconnect
  \/ \E s \in SocketIds : onopen(s)
  \/ \E cb \in Callbacks : subscribe("s1", cb)
  \/ \E cb \in Callbacks : unsubscribe("s1", cb)
  \/ subscribe("s2", "c1")
  \/ unsubscribe("s2", "c1")
  \/ \E cb \in Callbacks : subscribeAll(cb)
  \/ \E cb \in Callbacks : unsubscribeAll(cb)
  \/ \E s \in SocketIds, raw \in RawFrames : onmessage(s, raw)

SpecRouting == InitDefault /\ [][NextRouting]_vars

\* Routing with a callback subscribed under the empty sessionId.
NextEmptySession ==
  \/ connect
  \/ disconnect
  \/ \E s \in SocketIds : onopen(s)
  \/ subscribe("", "c1")
  \/ unsubscribe("", "c1")
  \/ subscribe("s1", "c1")
  \/ unsubscribe("s1", "c1")
  \/ subscribeAll("c2")
  \/ unsubscribeAll("c2")
  \/ \E s \in SocketIds, raw \in RawFrames : onmessage(s, raw)

SpecEmptySession == InitDefault /\ [][NextEmptySession]_vars

\* ----------------------------------------------------------- Message Store

Ids == {"a", "b"}
MessageContents == {"x", "y"}

\* A property the object does not have.
Absent == "absent"

\* BaseMessage, reduced to id, content and the optional metadata.
Messages == [id : Ids, content : MessageContents, metadata : {Absent, "m"}]

\* Partial<TMessage>: any subset of the properties.
Partials == [id : Ids \cup {Absent}, content : MessageContents \cup {Absent},
             metadata : {Absent, "m"}]

\* The lists a caller hands to addMessages.
Batches == UNION {[1..n -> Messages] : n \in 0..MaxBatch}

\* { ...existing, ...updates }
Spread(existing, updates) ==
  [f \in DOMAIN existing |-> IF updates[f] = Absent THEN existing[f] ELSE updates[f]]

\* Map: has, get, set (an existing key keeps its position, a new key goes
\* last) and delete.
MapIndex(map, key) ==
  IF \E i \in 1..Len(map) : map[i].key = key
  THEN CHOOSE i \in 1..Len(map) : map[i].key = key
  ELSE 0
MapHas(map, key) == MapIndex(map, key) # 0
MapGet(map, key) == map[MapIndex(map, key)].msg
\* Map.set moving an existing key to the last position.
MapSet_moveToEnd(map, key, msg) ==
  Append(SelectSeq(map, LAMBDA e : e.key # key), [key |-> key, msg |-> msg])
MapSet(map, key, msg) ==
  IF MapHas(map, key) THEN [map EXCEPT ![MapIndex(map, key)].msg = msg]
  ELSE Append(map, [key |-> key, msg |-> msg])
MapDelete(map, key) == SelectSeq(map, LAMBDA e : e.key # key)

\* Array.from(map.values())
MapValues(map) == [i \in 1..Len(map) |-> map[i].msg]

getMessages == MapValues(messages)

\* The body of addMessages: messages.set(message.id, message) for each message.
RECURSIVE SetEach(_, _)
SetEach(map, msgs) ==
  IF msgs = <<>> THEN map
  ELSE SetEach(MapSet(map, Head(msgs).id, Head(msgs)), Tail(msgs))

\* Set.forEach(callback) from position i on, over a Set the callbacks change
\* while it runs: a member deleted before its turn is not visited, a member
\* added during the iteration is visited. Returns the Set as the iteration
\* left it and the listeners called, in order.
SetAdd(set, l) == IF \E i \in 1..Len(set) : set[i] = l THEN set ELSE Append(set, l)
SetDelete(set, l) == SelectSeq(set, LAMBDA m : m # l)
RunListener(set, l) ==
  IF behaviour[l].op = "unsubscribe" THEN SetDelete(set, behaviour[l].arg)
  ELSE IF behaviour[l].op = "subscribe" THEN SetAdd(set, behaviour[l].arg)
  ELSE set
RECURSIVE forEach(_, _, _)
forEach(set, i, called) ==
  IF i > Len(set) THEN [set |-> set, called |-> called]
  ELSE LET l == set[i]
           after == RunListener(set, l)
           at == {j \in 1..Len(after) : after[j] = l}
       IN  forEach(after, IF at = {} THEN i ELSE (CHOOSE j \in at : TRUE) + 1,
                   Append(called, l))

\* notifyListeners() from position i on, with the snapshot it took: each
\* listener is called with the snapshot and runs its code. A listener whose
\* code is "clear" calls clear() when it is handed messages, which empties the
\* Map and runs notifyListeners() of its own before the outer forEach goes on.
\* Returns the Set and the Map as the round left them and the calls made, in
\* order.
RECURSIVE notifyFrom(_, _, _, _, _)
notifyFrom(set, map, snapshot, i, calls) ==
  IF i > Len(set) THEN [set |-> set, map |-> map, calls |-> calls]
  ELSE LET l == set[i]
           called == Append(calls, [listener |-> l, snapshot |-> snapshot])
           inner == IF behaviour[l].op = "clear" /\ snapshot # <<>>
                    THEN notifyFrom(set, <<>>, <<>>, 1, called)
                    ELSE [set |-> RunListener(set, l), map |-> map, calls |-> called]
           at == {j \in 1..Len(inner.set) : inner.set[j] = l}
       IN  notifyFrom(inner.set, inner.map, snapshot,
                      IF at = {} THEN i ELSE (CHOOSE j \in at : TRUE) + 1, inner.calls)

\* notifyListeners() on the Map as the call left it.
notifyListeners(map) == notifyFrom(listeners, map, MapValues(map), 1, <<>>)

\* A mutator that has changed the Map to map and runs notifyListeners().
Notify(map) ==
  /\ messages' = notifyListeners(map).map
  /\ listeners' = notifyListeners(map).set
  /\ notifications' = notifyListeners(map).calls

Subscribed == {listeners[i] : i \in 1..Len(listeners)}

addMessage(message) ==
  /\ Notify(MapSet(messages, message.id, message))
  /\ call' = [op |-> "addMessage", id |-> message.id]
  /\ UNCHANGED storeRest

addMessages(msgs) ==
  /\ Notify(SetEach(messages, msgs))
  /\ call' = [op |-> "addMessages", id |-> ""]
  /\ UNCHANGED storeRest

\* updateMessage without the test for an existing entry.
updateMessage_upsert(id, updates) ==
  /\ Notify(MapSet(messages, id,
                   IF MapHas(messages, id)
                   THEN Spread(MapGet(messages, id), updates) ELSE updates))
  /\ call' = [op |-> "updateMessage", id |-> id]
  /\ UNCHANGED storeRest

updateMessage(id, updates) ==
  /\ IF MapHas(messages, id)
     THEN Notify(MapSet(messages, id, Spread(MapGet(messages, id), updates)))
     ELSE /\ UNCHANGED <<messages, listeners>>
          /\ notifications' = <<>>
  /\ call' = [op |-> "updateMessage", id |-> id]
  /\ UNCHANGED storeRest

removeMessage(id) ==
  /\ IF MapHas(messages, id)
     THEN Notify(MapDelete(messages, id))
     ELSE /\ messages' = MapDelete(messages, id)
          /\ notifications' = <<>>
          /\ UNCHANGED listeners
  /\ call' = [op |-> "removeMessage", id |-> id]
  /\ UNCHANGED storeRest

clear ==
  /\ Notify(<<>>)
  /\ call' = [op |-> "clear", id |-> ""]
  /\ UNCHANGED storeRest

\* MessageStore.subscribe(listener): Set.add keeps the place of a member.
storeSubscribe(listener) ==
  /\ listeners' = SetAdd(listeners, listener)
  /\ notifications' = <<>>
  /\ call' = [op |-> "subscribe", id |-> ""]
  /\ UNCHANGED <<messages, storeRest>>

\* The function subscribe(listener) returned: Set.delete, which does nothing
\* for a listener that is not in the Set.
storeUnsubscribe(listener) ==
  /\ listeners' = SetDelete(listeners, listener)
  /\ notifications' = <<>>
  /\ call' = [op |-> "unsubscribe", id |-> ""]
  /\ UNCHANGED <<messages, storeRest>>

\* The store on its own: every call, with every argument, in every order.
NextStore ==
  \/ \E message \in Messages : addMessage(message)
  \/ \E msgs \in Batches : addMessages(msgs)
  \/ \E id \in Ids, updates \in Partials : updateMessage(id, updates)
  \/ \E id \in Ids : removeMessage(id)
  \/ clear
  \/ \E listener \in Listeners : storeSubscribe(listener)
  \/ \E listener \in Listeners : storeUnsubscribe(listener)

SpecStore == InitDefault /\ [][NextStore]_vars

\* The store with listeners that call it back.
InitReentrant ==
  /\ TransportInit
  /\ config = [enabled |-> TRUE, maxAttempts |-> 1, baseDelay |-> DefaultBaseDelay,
               maxDelay |-> SmallMaxDelay, urlOk |-> TRUE]
  /\ messages = <<>>
  /\ listeners = <<>>
  /\ notifications = <<>>
  /\ call = [op |-> "none", id |-> ""]
  /\ behaviour \in [Listeners -> StoreBehaviours]
  /\ state = INITIAL_STATE
  /\ streamListeners = <<>>
  /\ streamNotifications = <<>>
  /\ streamCall = [op |-> "none"]
  /\ params = NoParams
  /\ timeline = NotBuilt
  /\ rawInput = NoRawEvent
  /\ normalized = NotNormalized

NextReentrant ==
  \/ \E message \in Messages : addMessage(message)
  \/ \E id \in Ids : removeMessage(id)
  \/ clear
  \/ \E listener \in Listeners : storeSubscribe(listener)
  \/ \E listener \in Listeners : storeUnsubscribe(listener)

SpecReentrant == InitReentrant /\ [][NextReentrant]_vars

\* -------------------------------------------------- Streaming State Machine

\* ContentBlock, reduced to type, content and the optional url.
ContentBlocks == [type : {"text", "image"}, content : {"p", "q"}, url : {Absent, "u"}]

\* The content a caller hands to onPartialContent: an array of blocks.
PartialContents ==
  {[null |-> FALSE, blocks |-> bs] : bs \in UNION {[1..n -> ContentBlocks] : n \in 0..MaxBlocks}}

contentBlocksEqual(a, b) ==
  IF a = b THEN TRUE
  ELSE IF a.null \/ b.null THEN FALSE
  ELSE IF Len(a.blocks) # Len(b.blocks) THEN FALSE
  ELSE \A i \in 1..Len(a.blocks) :
         /\ a.blocks[i].type = b.blocks[i].type
         /\ a.blocks[i].content = b.blocks[i].content

\* setState(newState): hasChanged.
hasChanged(newState) ==
  \/ state.isStreaming # newState.isStreaming
  \/ state.sessionId # newState.sessionId
  \/ ~contentBlocksEqual(state.partialContent, newState.partialContent)

\* setState(newState) storing and announcing every state it is given.
setState_always(newState) ==
  /\ state' = newState
  /\ streamNotifications' =
       LET called == forEach(streamListeners, 1, <<>>).called
       IN  [i \in 1..Len(called) |-> [listener |-> called[i], state |-> newState]]
  /\ streamListeners' = forEach(streamListeners, 1, <<>>).set

\* setState(newState), with the notifyListeners() it runs: getState() once,
\* then listeners.forEach.
setState(newState) ==
  IF hasChanged(newState)
  THEN /\ state' = newState
       /\ streamNotifications' =
            LET called == forEach(streamListeners, 1, <<>>).called
            IN  [i \in 1..Len(called) |-> [listener |-> called[i], state |-> newState]]
       /\ streamListeners' = forEach(streamListeners, 1, <<>>).set
  ELSE /\ UNCHANGED <<state, streamListeners>>
       /\ streamNotifications' = <<>>

getState == state

onPartialContent(sessionId, content) ==
  /\ setState([isStreaming |-> TRUE, partialContent |-> content, sessionId |-> sessionId])
  /\ streamCall' = [op |-> "onPartialContent", sessionId |-> sessionId]
  /\ UNCHANGED streamRest

\* onComplete without the test for the tracked session.
onComplete_anySession(sessionId) ==
  /\ setState(INITIAL_STATE)
  /\ streamCall' = [op |-> "onComplete", sessionId |-> sessionId]
  /\ UNCHANGED streamRest

onComplete(sessionId) ==
  /\ IF state.sessionId = sessionId \/ state.sessionId = "null"
     THEN setState(INITIAL_STATE)
     ELSE /\ UNCHANGED <<state, streamListeners>>
          /\ streamNotifications' = <<>>
  /\ streamCall' = [op |-> "onComplete", sessionId |-> sessionId]
  /\ UNCHANGED streamRest

\* reset() that clears isStreaming and partialContent and keeps the sessionId.
reset_keepsSession ==
  /\ setState([INITIAL_STATE EXCEPT !.sessionId = state.sessionId])
  /\ streamCall' = [op |-> "reset"]
  /\ UNCHANGED streamRest

reset ==
  /\ setState(INITIAL_STATE)
  /\ streamCall' = [op |-> "reset"]
  /\ UNCHANGED streamRest

\* StreamingStateMachine.subscribe(listener)
streamSubscribe(listener) ==
  /\ streamListeners' = SetAdd(streamListeners, listener)
  /\ streamNotifications' = <<>>
  /\ streamCall' = [op |-> "subscribe"]
  /\ UNCHANGED <<state, streamRest>>

\* The function subscribe(listener) returned.
streamUnsubscribe(listener) ==
  /\ streamListeners' = SetDelete(streamListeners, listener)
  /\ streamNotifications' = <<>>
  /\ streamCall' = [op |-> "unsubscribe"]
  /\ UNCHANGED <<state, streamRest>>

\* The streaming state machine on its own, with listeners that return at once.
NextStream ==
  \/ \E sessionId \in Sessions, content \in PartialContents :
       onPartialContent(sessionId, content)
  \/ \E sessionId \in Sessions : onComplete(sessionId)
  \/ reset
  \/ \E listener \in Listeners : streamSubscribe(listener)
  \/ \E listener \in Listeners : streamUnsubscribe(listener)

SpecStream == InitDefault /\ [][NextStream]_vars

\* Notification rounds with listeners of every behaviour: the store and the
\* streaming state machine with their subscribe calls and the calls that
\* notify (clear and addMessage; onPartialContent with an empty list for s1
\* and reset).
InitRounds ==
  /\ TransportInit
  /\ config = [enabled |-> TRUE, maxAttempts |-> 1, baseDelay |-> DefaultBaseDelay,
               maxDelay |-> SmallMaxDelay, urlOk |-> TRUE]
  /\ messages = <<>>
  /\ listeners = <<>>
  /\ notifications = <<>>
  /\ call = [op |-> "none", id |-> ""]
  /\ behaviour \in [Listeners -> Behaviours]
  /\ state = INITIAL_STATE
  /\ streamListeners = <<>>
  /\ streamNotifications = <<>>
  /\ streamCall = [op |-> "none"]
  /\ params = NoParams
  /\ timeline = NotBuilt
  /\ rawInput = NoRawEvent
  /\ normalized = NotNormalized

NextRounds ==
  \/ \E listener \in Listeners : storeSubscribe(listener)
  \/ \E listener \in Listeners : storeUnsubscribe(listener)
  \/ clear
  \/ addMessage([id |-> "a", content |-> "x", metadata |-> Absent])
  \/ \E listener \in Listeners : streamSubscribe(listener)
  \/ \E listener \in Listeners : streamUnsubscribe(listener)
  \/ onPartialContent("s1", [null |-> FALSE, blocks |-> <<>>])
  \/ reset

SpecRounds == InitRounds /\ [][NextRounds]_vars

\* --------------------------------------------------------- Timeline Builder

\* getFieldValue(obj, field) for the fields of an item: id and createdAt are
\* strings, sequence is a number, null or missing, metadata is an object or
\* missing, itemType is a string once build has tagged the item.
getFieldValue(item, field) ==
  IF field = "id" THEN Str(item.id)
  ELSE IF field = "createdAt" THEN Str(item.createdAt)
  ELSE IF field = "sequence" THEN item.sequence
  ELSE IF field = "metadata"
       THEN (IF item.metadata = Absent THEN Undefined ELSE Object(item.metadata))
  ELSE IF field = "itemType"
       THEN (IF item.itemType = Absent THEN Undefined ELSE Str(item.itemType))
  ELSE Undefined

\* a.localeCompare(b), as a sign, for the strings that occur: digits sort
\* before letters, and a lower-case letter before the upper-case letters that
\* follow it in the alphabet.
Collation ==
  <<"1", "2", "3", "4", "a", "b", "B", "c", "d", "e", "[object Object]",
    "null", "t1", "t2", "undefined">>
Rank(x) == CHOOSE i \in 1..Len(Collation) : Collation[i] = x
localeCompare(a, b) ==
  IF a = b THEN 0 ELSE IF Rank(a) < Rank(b) THEN 0 - 1 ELSE 1

DEFAULT_SORTING_RULES ==
  <<[field |-> "sequence", direction |-> "asc", priority |-> 1],
    [field |-> "createdAt", direction |-> "asc", priority |-> 2],
    [field |-> "id", direction |-> "asc", priority |-> 3]>>

DEFAULT_DEDUP_RULES_first == <<[field |-> "id", strategy |-> "first"]>>
DEFAULT_DEDUP_RULES == <<[field |-> "id", strategy |-> "last"]>>

\* The rules left in the order they were supplied.
sortRules_asSupplied(rules) == rules

\* Array.prototype.sort(compare) on the rules: a stable sort by priority.
RECURSIVE sortRules(_)
sortRules(rules) ==
  IF rules = <<>> THEN <<>>
  ELSE LET rest == sortRules(SubSeq(rules, 1, Len(rules) - 1))
           r == rules[Len(rules)]
           before == SelectSeq(rest, LAMBDA q : q.priority <= r.priority)
           after == SelectSeq(rest, LAMBDA q : q.priority > r.priority)
       IN  before \o <<r>> \o after

\* compareRule with the direction applied to the placement of missing values.
compareRule_nullsFollowDirection(a, b, rule) ==
  LET aVal == getFieldValue(a, rule.field)
      bVal == getFieldValue(b, rule.field)
      aNull == aVal.k \in {"undefined", "null"}
      bNull == bVal.k \in {"undefined", "null"}
      comparison ==
        IF aNull /\ bNull THEN 0
        ELSE IF aNull THEN 1
        ELSE IF bNull THEN 0 - 1
        ELSE IF aVal.k = "number" /\ bVal.k = "number"
        THEN (IF aVal.n < bVal.n THEN 0 - 1 ELSE IF aVal.n > bVal.n THEN 1 ELSE 0)
        ELSE localeCompare(String(aVal), String(bVal))
  IN  IF comparison # 0
      THEN (IF rule.direction = "desc" THEN 0 - comparison ELSE comparison)
      ELSE 2

\* The comparison of one rule: 2 stands for "continue" (both values null or
\* undefined, or the comparison is 0).
compareRule(a, b, rule) ==
  LET aVal == getFieldValue(a, rule.field)
      bVal == getFieldValue(b, rule.field)
      aNull == aVal.k \in {"undefined", "null"}
      bNull == bVal.k \in {"undefined", "null"}
      comparison ==
        IF aVal.k = "number" /\ bVal.k = "number"
        THEN (IF aVal.n < bVal.n THEN 0 - 1 ELSE IF aVal.n > bVal.n THEN 1 ELSE 0)
        ELSE IF aVal.k = "string" /\ bVal.k = "string" THEN localeCompare(aVal.s, bVal.s)
        ELSE localeCompare(String(aVal), String(bVal))
  IN  IF aNull /\ bNull THEN 2
      ELSE IF aNull THEN 1
      ELSE IF bNull THEN 0 - 1
      ELSE IF comparison # 0
           THEN (IF rule.direction = "desc" THEN 0 - comparison ELSE comparison)
      ELSE 2

\* The function createCompareFunction(rules) returns, given the sorted rules.
RECURSIVE compare(_, _, _)
compare(a, b, sortedRules) ==
  IF sortedRules = <<>> THEN 0
  ELSE LET c == compareRule(a, b, Head(sortedRules))
       IN  IF c = 2 THEN compare(a, b, Tail(sortedRules)) ELSE c

\* Array.prototype.sort(compareFunction): a stable sort.
RECURSIVE sort(_, _)
sort(items, sortedRules) ==
  IF items = <<>> THEN <<>>
  ELSE LET rest == sort(SubSeq(items, 1, Len(items) - 1), sortedRules)
           x == items[Len(items)]
           before == SelectSeq(rest, LAMBDA e : compare(e, x, sortedRules) <= 0)
           after == SelectSeq(rest, LAMBDA e : compare(e, x, sortedRules) > 0)
       IN  before \o <<x>> \o after

\* deduplicateItems: the inner loop over the rules for one item, and the
\* outer loop over the items, on the Map seen.
RECURSIVE dedupRules(_, _, _)
dedupRules(seen, item, rules) ==
  IF rules = <<>> THEN seen
  ELSE LET rule == Head(rules)
           key == String(getFieldValue(item, rule.field))
       IN  dedupRules(IF rule.strategy = "first" /\ MapHas(seen, key) THEN seen
                      ELSE MapSet(seen, key, item),
                      item, Tail(rules))

RECURSIVE dedupItems(_, _, _)
dedupItems(seen, items, rules) ==
  IF items = <<>> THEN seen
  ELSE dedupItems(dedupRules(seen, Head(items), rules), Tail(items), rules)

deduplicateItems(items, rules) == MapValues(dedupItems(<<>>, items, rules))

\* build(params): the tagged, concatenated inputs, and what build returns.
allItems(p) ==
  LET messageItems == [i \in 1..Len(p.messages) |->
                         [p.messages[i] EXCEPT !.itemType = "message"]]
      eventItems == [i \in 1..Len(p.events) |->
                       [p.events[i] EXCEPT !.itemType = "event"]]
  IN  messageItems \o eventItems

buildItems(p) ==
  LET deduplicationRules == IF p.deduplicationRules.given
                            THEN p.deduplicationRules.rules ELSE DEFAULT_DEDUP_RULES
      sortingRules == IF p.sortingRules.given
                      THEN p.sortingRules.rules ELSE DEFAULT_SORTING_RULES
      dedupedItems == deduplicateItems(allItems(p), deduplicationRules)
  IN  sort(dedupedItems, sortRules(sortingRules))

\* A caller calls build(params) with the params it holds.
build ==
  /\ params.given
  /\ ~timeline.built
  /\ timeline' = [built |-> TRUE, items |-> buildItems(params)]
  /\ UNCHANGED <<params, timelineRest>>

\* Everything but the params as constructed, and no call of normalize.
IdleInit ==
  /\ TransportInit
  /\ config = [enabled |-> TRUE, maxAttempts |-> 1, baseDelay |-> DefaultBaseDelay,
               maxDelay |-> SmallMaxDelay, urlOk |-> TRUE]
  /\ IdleState
  /\ rawInput = NoRawEvent

\* Sequences of at most n elements of S.
SeqUpTo(S, n) == UNION {[1..k -> S] : k \in 0..n}

NoRules == [given |-> FALSE, rules |-> <<>>]
Rules(rs) == [given |-> TRUE, rules |-> rs]

\* The params a caller builds: messages, events (at most one), the streaming
\* pair, and the two optional rule lists.
Params(ms, es, streaming, dedup, sorting) ==
  [given |-> TRUE, messages |-> ms, events |-> es,
   isStreaming |-> streaming,
   partialContent |-> IF streaming
                      THEN [null |-> FALSE,
                            blocks |-> <<[type |-> "text", content |-> "p", url |-> Absent]>>]
                      ELSE NullContent,
   deduplicationRules |-> dedup, sortingRules |-> sorting]

\* Messages and events as the callers hand them over, not yet tagged.
TimelineMessages(ids, sequences, createdAts, metadatas) ==
  [id : ids, sequence : sequences, createdAt : createdAts, metadata : metadatas,
   itemType : {Absent}]
TimelineEvents(ids, createdAts) ==
  [id : ids, sequence : {Undefined}, createdAt : createdAts, metadata : {Absent},
   itemType : {Absent}, type : {"joined"}]

\* build without rules: messages and events that share ids, with and without
\* the streaming pair.
DefaultMessages ==
  SeqUpTo(TimelineMessages({"a", "b"}, {Null, Number(1), Number(2)}, {"t1", "t2"},
                           {Absent}), MaxItems)
DefaultEvents == SeqUpTo(TimelineEvents({"a", "c"}, {"t1", "t2"}), 1)
InitDefaultRules ==
  /\ IdleInit
  /\ \E ms \in DefaultMessages, es \in DefaultEvents, streaming \in BOOLEAN :
       params = Params(ms, es, streaming, NoRules, NoRules)

\* build with one deduplication rule, on id, sequence or metadata.
DedupRules == [field : {"id", "sequence", "metadata"}, strategy : {"first", "last"}]
DedupMessages ==
  SeqUpTo(TimelineMessages({"a", "b"}, {Null, Number(1)}, {"t1"}, {Absent, "m1", "m2"}),
          MaxItems)
DedupEvents == SeqUpTo(TimelineEvents({"a"}, {"t1"}), 1)
InitDedup ==
  /\ IdleInit
  /\ \E ms \in DedupMessages, es \in DedupEvents, rule \in DedupRules :
       params = Params(ms, es, FALSE, Rules(<<rule>>), NoRules)

\* build with one or two deduplication rules, on id and sequence, and messages
\* some of which have no sequence.
RuleLists ==
  UNION {[1..n -> [field : {"id", "sequence"}, strategy : {"first", "last"}]] : n \in 1..2}
InitDedupRules ==
  /\ IdleInit
  /\ \E ms \in SeqUpTo(TimelineMessages({"a", "b"}, {Undefined, Number(1)}, {"t1"},
                                        {Absent}), MaxItems),
        rules \in RuleLists :
       params = Params(ms, <<>>, FALSE, Rules(rules), NoRules)

\* Messages of distinct ids, the i-th one carrying the i-th id.
IdSeq == <<"a", "b", "c", "d", "e">>
DistinctMessages(sequences) ==
  UNION {{ms \in [1..k -> TimelineMessages({"a", "b", "c", "d", "e"}, sequences,
                                            {"t1", "t2"}, {Absent})] :
            \A i \in 1..k : ms[i].id = IdSeq[i]} : k \in 0..MaxItems}

\* build with one sorting rule, on sequence or createdAt.
SingleRules == [field : {"sequence", "createdAt"}, direction : {"asc", "desc"},
                priority : {1}]
InitSort ==
  /\ IdleInit
  /\ \E ms \in DistinctMessages({Undefined, Null, Number(1), Number(2), Number(3)}),
        rule \in SingleRules :
       params = Params(ms, <<>>, FALSE, NoRules, Rules(<<rule>>))

\* build with up to two sorting rules, supplied in either order of priority.
SortingRules == [field : {"sequence", "createdAt"}, direction : {"asc", "desc"},
                 priority : {1, 2}]
SortingRuleLists ==
  {rs \in SeqUpTo(SortingRules, 2) :
     Len(rs) = 2 => /\ rs[1].field # rs[2].field
                    /\ <<rs[1].priority, rs[2].priority>> # <<2, 2>>}
InitSortRules ==
  /\ IdleInit
  /\ \E ms \in DistinctMessages({Null, Number(1), Number(2)}), rs \in SortingRuleLists :
       params = Params(ms, <<>>, FALSE, NoRules, Rules(rs))

NextTimeline == build

SpecDefaultRules == InitDefaultRules /\ [][NextTimeline]_vars
SpecDedup == InitDedup /\ [][NextTimeline]_vars
SpecDedupRules == InitDedupRules /\ [][NextTimeline]_vars
SpecSort == InitSort /\ [][NextTimeline]_vars
SpecSortRules == InitSortRules /\ [][NextTimeline]_vars

\* --------------------------------------------------------------- Normalizer

\* The values handed to normalize: the values that are not objects, and the
\* objects over a choice of values for each field normalize reads.
Primitives ==
  {Undefined, Null, Number(0), Number(5), Str(""), Str("x"), Bool(FALSE), Bool(TRUE)}
RawObjects ==
  {RawObject(fields) : fields \in
     [type : {Undefined, Str(""), Str("typing"), Number(5), Unprintable},
      sessionId : {Undefined, Str(""), Str("s1"), Number(0)},
      session_id : {Undefined, Str("s2")},
      payload : {Undefined, Null, Number(0), Object("payload")},
      data : {Undefined, Object("data")},
      sequence : {Undefined, Number(1), Str("1")},
      timestamp : {Undefined, Str("t1")},
      createdAt : {Undefined, Str("t2")}]}
RawEvents == Primitives \cup RawObjects

ClockReadings == {"now", "later"}

\* A caller calls normalize(rawEvent) with the value it holds.
normalizeCall(now) ==
  /\ rawInput # NoRawEvent
  /\ ~normalized.called
  /\ normalized' = [called |-> TRUE, result |-> normalizeAt(rawInput, now)]
  /\ UNCHANGED <<rawInput, transportVars, behaviour, storeVars, streamVars, timelineVars>>

InitNormalizer ==
  /\ TransportInit
  /\ config = [enabled |-> TRUE, maxAttempts |-> 1, baseDelay |-> DefaultBaseDelay,
               maxDelay |-> SmallMaxDelay, urlOk |-> TRUE]
  /\ IdleState
  /\ params = NoParams
  /\ rawInput \in RawEvents

NextNormalizer == \E now \in ClockReadings : normalizeCall(now)

SpecNormalizer == InitNormalizer /\ [][NextNormalizer]_vars

\* ------------------------------------------------------------------ claims

AllSocketsDone == \A s \in SocketIds : sock[s].ph \in {"unused", "closed"}
Written(frames, f) == Cardinality({i \in 1..Len(frames) : frames[i].frame = f})

\* C1: after disconnect() has returned and until the caller calls connect()
\* again, the status stays disconnected, no reconnect timer is pending and no
\* socket is current, whatever late event of the closed socket arrives.
C1_DisconnectIsFinal ==
  shut => status = "disconnected" /\ reconnectTimer = 0 /\ ws = 0

\* C2: disconnect(), called in any status, leaves status = disconnected, no
\* pending reconnect timer, no running heartbeat and no current socket.
C2_DisconnectPostcondition ==
  [][disconnect =>
       /\ status' = "disconnected"
       /\ reconnectTimer' = 0
       /\ heartbeatTimer' = FALSE
       /\ ws' = 0
       /\ \A s \in SocketIds : sock'[s].ph \notin {"connecting", "open"} \/ s # ws]_vars

\* disconnect() was called while the socket was still connecting, with a
\* heartbeat left running by an earlier socket's open.
C2_Witness ==
  /\ shut
  /\ status = "disconnected"
  /\ \E s \in SocketIds : sock[s].ph = "closingC"
  /\ \E s \in SocketIds : sock[s].ph = "closingO"

\* The run C3 is about: reconnect enabled with maxAttempts = 2, a socket that
\* opened, closed uncleanly and was followed by two reopen attempts that both
\* failed, with no call of the caller in between.
C3_Scenario ==
  /\ trace.live
  /\ config.enabled
  /\ config.maxAttempts = 2
  /\ reconnectAttempts = 2
  /\ nsock >= 3
  /\ AllSocketsDone

C3_Delays ==
  <<Min(config.baseDelay, config.maxDelay), Min(config.baseDelay * 2, config.maxDelay)>>

\* C3 (as stated): in that run the status listeners observe exactly connected ->
\* reconnecting -> connecting -> reconnecting -> connecting -> error, and the
\* two waits are min(base*2^0, max) and min(base*2^1, max).
C3_StatusSequence ==
  C3_Scenario =>
    /\ trace.log = <<"connected", "reconnecting", "connecting",
                     "reconnecting", "connecting", "error">>
    /\ trace.delays = C3_Delays

\* C3 (amended): each failed reopen shows the listeners error before the close
\* event moves on: connected -> reconnecting -> connecting -> error ->
\* reconnecting -> connecting -> error, with the same two waits.
C3_StatusSequenceWithError ==
  C3_Scenario =>
    /\ trace.log = <<"connected", "reconnecting", "connecting", "error",
                     "reconnecting", "connecting", "error">>
    /\ trace.delays = C3_Delays
    /\ status = "error"

C3_Witness == C3_Scenario

\* C4: the attempt counter never exceeds maxAttempts (it counts the timer's
\* retries since the last open); once it has reached maxAttempts no reconnect
\* timer is pending; and an unclean close that finds it there sets the status
\* to error and schedules nothing.
C4_RetryBudget ==
  /\ [](/\ reconnectAttempts <= config.maxAttempts
        /\ (reconnectAttempts >= config.maxAttempts => reconnectTimer = 0))
  /\ [][(/\ \E s \in SocketIds : onclose(s, FALSE)
         /\ config.enabled
         /\ reconnectAttempts >= config.maxAttempts)
        => status' = "error" /\ reconnectTimer' = 0]_vars
  /\ [][reconnectAttempts' # reconnectAttempts =>
          \/ reconnectTimerFires /\ reconnectAttempts' = reconnectAttempts + 1
          \/ reconnectAttempts' = 0 /\ status' = "connected"]_vars

\* The budget is spent: the last retry's socket has failed and closed.
C4_Witness ==
  /\ config.enabled
  /\ config.maxAttempts = 2
  /\ reconnectAttempts = 2
  /\ status = "error"
  /\ reconnectTimer = 0
  /\ AllSocketsDone
  /\ ~shut

\* C5: a connect() call made in status error with the attempt counter at
\* maxAttempts resets the counter.
C5_ManualConnectResetsCounter ==
  [][(/\ connect
      /\ status = "error"
      /\ config.enabled
      /\ reconnectAttempts >= config.maxAttempts
      /\ nsock' = nsock + 1)
     => reconnectAttempts' = 0]_vars

\* C6: a step that schedules a reconnect (the only one that sets status to
\* reconnecting) leaves a timer of min(baseDelay * 2^attempts, maxDelay) ms,
\* attempts being the counter, which that step does not change; the counter
\* is incremented by the step in which the timer fires, which is also the
\* step that runs the retry's connect(); no pending timer exceeds maxDelay.
C6_BackoffDelay ==
  /\ [][status' = "reconnecting" /\ status # "reconnecting" =>
          /\ reconnectAttempts' = reconnectAttempts
          /\ \/ reconnectTimer' = config.baseDelay * Pow2(reconnectAttempts)
                /\ config.baseDelay * Pow2(reconnectAttempts) <= config.maxDelay
             \/ reconnectTimer' = config.maxDelay
                /\ config.baseDelay * Pow2(reconnectAttempts) >= config.maxDelay]_vars
  /\ [][reconnectTimerFires =>
          /\ reconnectAttempts' = reconnectAttempts + 1
          /\ reconnectTimer' = 0
          /\ (status = "reconnecting" => status' = "connecting" /\ nsock' = nsock + 1)]_vars
  /\ [](reconnectTimer <= config.maxDelay)

\* The second retry is scheduled with the capped delay.
C6_Witness ==
  /\ status = "reconnecting"
  /\ reconnectAttempts = 1
  /\ reconnectTimer = config.maxDelay
  /\ config.baseDelay * 2 > config.maxDelay

\* C7: send(m) in a status other than connected rejects and writes nothing;
\* a message frame is written only by the step of a send that resolved, made
\* while connected, so no later step (an open, a timer) writes a message.
C7_SendRequiresConnected ==
  /\ [][\A m \in OutgoingMessages :
          send(m) /\ status # "connected" => ret' = "send:rejected" /\ out' = <<>>]_vars
  /\ [](\A i \in 1..Len(out) :
          out[i].frame.type = "message" => ret = "send:resolved" /\ status = "connected")

\* send() was rejected although the current socket is open (the status had
\* been moved off connected).
C7_Witness ==
  /\ ret = "send:rejected"
  /\ ws # 0
  /\ readyState(ws) = "OPEN"

\* C8: while the status is connected, a step sends exactly one subscribe
\* frame for a session when that session's callback set goes from empty to
\* non-empty and none otherwise, and exactly one unsubscribe frame when it goes
\* from non-empty to empty and none otherwise.
C8_SessionFrames ==
  [][status = "connected" =>
       \A sid \in Sessions :
         /\ Written(out', SubscribeFrame(sid)) =
              IF sessionSubscribers[sid] = {} /\ sessionSubscribers'[sid] # {} THEN 1 ELSE 0
         /\ Written(out', UnsubscribeFrame(sid)) =
              IF sessionSubscribers[sid] # {} /\ sessionSubscribers'[sid] = {} THEN 1 ELSE 0]_vars

\* C9: once the connection is open and the transport is idle (no socket event
\* and no timer outstanding), the server has been sent a subscribe frame for
\* every session that has a callback, also for one subscribed before the
\* socket opened.
C9_SubscribedSessionsAnnounced ==
  (/\ status = "connected"
   /\ ws # 0
   /\ readyState(ws) = "OPEN"
   /\ reconnectTimer = 0
   /\ \A s \in SocketIds \ {ws} : sock[s].ph \in {"unused", "closed"})
  => \A sid \in Sessions : sessionSubscribers[sid] # {} => sid \in serverSubs

\* C10: while connected with the current socket open, a step sends the global
\* subscribe frame exactly when the global registry goes from empty to
\* non-empty, and the global unsubscribe frame exactly when it goes from
\* non-empty to empty.
C10_GlobalFrames ==
  [][status = "connected" /\ ws # 0 /\ readyState(ws) = "OPEN" =>
       /\ Written(out', SubscribeAllFrame) =
            IF allSubscribers = {} /\ allSubscribers' # {} THEN 1 ELSE 0
       /\ Written(out', UnsubscribeAllFrame) =
            IF allSubscribers # {} /\ allSubscribers' = {} THEN 1 ELSE 0]_vars

\* ------------------------------------------------------- inbound frames

\* How many times the step called cb.
Invocations(cb) ==
  (IF cb \in delivered.session THEN 1 ELSE 0) + (IF cb \in delivered.global THEN 1 ELSE 0)

\* How many times cb is registered for the session sid or globally.
Registrations(sid, cb) ==
  (IF sid \in Sessions /\ cb \in sessionSubscribers[sid] THEN 1 ELSE 0)
  + (IF cb \in allSubscribers THEN 1 ELSE 0)

BadFrame(raw) == raw.kind \in {"unparseable", "null", "number"}
PongFrame(raw) == raw.kind = "object" /\ raw.type = "pong"

C12_PongSwallowed ==
  PongFrame(delivered.raw) =>
    /\ delivered.session = {}
    /\ delivered.global = {}
    /\ ~delivered.normalized
    /\ ~delivered.event.ok

\* A pong naming s1 arrived while s1 had a callback and a global callback was
\* registered.
C12_Witness ==
  /\ PongFrame(delivered.raw)
  /\ delivered.raw.sessionId = "s1"
  /\ sessionSubscribers["s1"] # {}
  /\ allSubscribers # {}
  /\ status = "connected"

\* C13: a frame that is not JSON, or that the normalizer maps to null, calls no
\* callback, raises nothing (the parse error ends in the catch block) and leaves
\* the status, the registries, the timers, the counter and the sockets as they
\* were; the next frame that normalizes to an event is delivered as usual.
C13_BadFrameIgnored ==
  [][(delivered'.raw \in RawFrames
        /\ \E s \in SocketIds : onmessage(s, delivered'.raw)) =>
       /\ BadFrame(delivered'.raw) =>
            /\ delivered'.session = {} /\ delivered'.global = {}
            /\ ~delivered'.event.ok
            /\ ret' = "none"
            /\ delivered'.caught = (delivered'.raw.kind # "number")
            /\ UNCHANGED <<status, sessionSubscribers, allSubscribers, reconnectTimer,
                           heartbeatTimer, reconnectAttempts, ws, sock>>
       /\ (BadFrame(delivered.raw) /\ ~BadFrame(delivered'.raw)
             /\ ~PongFrame(delivered'.raw)) =>
            /\ delivered'.event.ok
            /\ delivered'.global = allSubscribers
            /\ delivered'.session =
                 IF delivered'.event.sessionId \in Sessions
                 THEN sessionSubscribers[delivered'.event.sessionId] ELSE {}]_vars

\* A frame that is not JSON arrived on a connected transport with subscribers
\* of both kinds and a running heartbeat.
C13_Witness ==
  /\ delivered.raw.kind = "unparseable"
  /\ delivered.caught
  /\ delivered.session = {} /\ delivered.global = {}
  /\ sessionSubscribers["s1"] # {}
  /\ allSubscribers # {}
  /\ status = "connected"
  /\ heartbeatTimer

\* ------------------------------------------------- errors, heartbeat, close

\* Socket s has opened: the promise of the connect() that created it resolved.
Established(s) == sock[s].prom = "resolved"

\* C14: the error event of a socket that has not opened, arriving while the
\* status is connecting, rejects the promise of the connect() call that
\* created the socket and sets the status to error; the error event of a
\* socket that has opened changes the status only: no promise settles, no
\* timer and no counter changes, and the close event that follows sets the
\* status (with attempts left: reconnecting when reconnection is enabled,
\* disconnected when it is not).
C14_ErrorRejectsOnlyWhileConnecting ==
  [][\A s \in SocketIds :
       /\ onerror(s) =>
            /\ status' = "error"
            /\ sock'[s].ph = "failed"
            /\ \A t \in SocketIds \ {s} : sock'[t] = sock[t]
            /\ UNCHANGED <<reconnectTimer, reconnectAttempts, heartbeatTimer, ws>>
            /\ (status = "connecting" /\ ~Established(s)) =>
                 /\ sock[s].prom = "pending"
                 /\ sock'[s].prom = "rejected"
            /\ Established(s) => sock'[s].prom = "resolved"
       /\ (onclose(s, FALSE) /\ sock[s].ph = "failed" /\ Established(s)
             /\ reconnectAttempts < config.maxAttempts) =>
            status' = IF config.enabled THEN "reconnecting" ELSE "disconnected"]_vars

\* One connect() was rejected by an error while connecting, and the socket of
\* a later, established connection has just had an error: the status is error
\* and the heartbeat still runs until the close event.
C14_Witness ==
  \E s, t \in SocketIds :
    /\ sock[s].prom = "rejected"
    /\ sock[t].ph = "failed"
    /\ Established(t)
    /\ status = "error"
    /\ heartbeatTimer

\* C15: whenever a promise returned by connect() resolves (at once, for a call
\* that returns early, or when the socket of the call opens), the status is
\* connected at that moment; this includes a call made while the status is
\* connecting.
C15_ResolvedMeansConnected ==
  [][(\/ ret' = "connect:resolved"
      \/ \E s \in SocketIds : sock[s].prom = "pending" /\ sock'[s].prom = "resolved")
       => status' = "connected"]_vars

\* C16: the heartbeat timer is running exactly when the status is connected
\* (in no reachable state is it running with another status, or stopped with
\* the status connected), and a ping is written only while the status is
\* connected.
C16_HeartbeatExactlyWhenConnected ==
  /\ heartbeatTimer <=> (status = "connected")
  /\ Written(out, PingFrame) > 0 => status = "connected"

\* C17: when a socket of the transport closes, the heartbeat is stopped; a
\* clean close sets the status to disconnected and sets no reconnect timer; an
\* unclean close sets the status to disconnected when reconnection is disabled,
\* to error when the counter has reached maxAttempts, and otherwise to
\* reconnecting with one reconnect timer of the backoff delay. Every open
\* leaves the counter at 0.
C17_CloseOutcome ==
  [][\A s \in SocketIds :
       /\ \A wasClean \in BOOLEAN :
            onclose(s, wasClean) =>
              /\ ~heartbeatTimer'
              /\ reconnectAttempts' = reconnectAttempts
              /\ wasClean => /\ status' = "disconnected"
                             /\ reconnectTimer' = reconnectTimer
              /\ (~wasClean /\ ~config.enabled) =>
                   /\ status' = "disconnected"
                   /\ reconnectTimer' = reconnectTimer
              /\ (~wasClean /\ config.enabled
                    /\ reconnectAttempts >= config.maxAttempts) =>
                   /\ status' = "error"
                   /\ reconnectTimer' = reconnectTimer
              /\ (~wasClean /\ config.enabled
                    /\ reconnectAttempts < config.maxAttempts) =>
                   /\ status' = "reconnecting"
                   /\ reconnectTimer' > 0
                   /\ reconnectTimer' =
                        Min(config.baseDelay * Pow2(reconnectAttempts), config.maxDelay)
       /\ onopen(s) => reconnectAttempts' = 0]_vars

\* A connected transport, on its second socket or a later one, has just lost
\* that socket uncleanly: the listeners saw connected then reconnecting, the first backoff
\* delay is pending and the heartbeat is stopped.
C17_Witness ==
  /\ trace.live
  /\ trace.log = <<"connected", "reconnecting">>
  /\ status = "reconnecting"
  /\ reconnectTimer = Min(config.baseDelay, config.maxDelay)
  /\ reconnectAttempts = 0
  /\ ~heartbeatTimer
  /\ nsock >= 2

\* ------------------------------------------------------------ Message Store

\* Every subscribed listener was called exactly once, in the Set's order, with
\* the contents the call left.
NotifiedOnce ==
  notifications' = [i \in 1..Len(listeners) |->
                      [listener |-> listeners[i], snapshot |-> MapValues(messages')]]

\* The last message with this id in a list that holds one.
LastWithId(list, id) ==
  list[CHOOSE k \in 1..Len(list) :
         /\ list[k].id = id
         /\ \A j \in (k + 1)..Len(list) : list[j].id # id]

\* after holds, for every id of the list supplied (the previous contents
\* followed by the messages added), one entry, equal to the last message
\* supplied with that id, and nothing else.
OnePerId(supplied, after) ==
  /\ \A i, j \in 1..Len(after) : after[i].id = after[j].id => i = j
  /\ {after[i].id : i \in 1..Len(after)} = {supplied[k].id : k \in 1..Len(supplied)}
  /\ \A i \in 1..Len(after) : after[i] = LastWithId(supplied, after[i].id)

\* C18: after addMessages(msgs), on any store state, getMessages() holds
\* exactly one entry per distinct id among the previous contents and msgs, the
\* entry of an id being the last message supplied with it, whole; every
\* subscribed listener is notified exactly once; addMessage(m) behaves as
\* addMessages(<<m>>).
C18_AddMessagesLastWins ==
  [][/\ \A msgs \in Batches :
          addMessages(msgs) =>
            /\ OnePerId(getMessages \o msgs, MapValues(messages'))
            /\ NotifiedOnce
     /\ \A message \in Messages :
          addMessage(message) =>
            /\ OnePerId(getMessages \o <<message>>, MapValues(messages'))
            /\ NotifiedOnce]_vars

\* C19: updateMessage(id, partial) with an id the store has no entry for
\* changes nothing and calls no listener; with an id it has an entry for, the
\* entry becomes the existing message with the properties of partial written
\* over it, in the same position, and the other entries stay as they were.
C19_UpdateMessage ==
  [][\A id \in Ids, updates \in Partials :
       (call'.op = "updateMessage" /\ call'.id = id /\ updateMessage(id, updates)) =>
         IF ~\E i \in 1..Len(messages) : messages[i].key = id
         THEN /\ messages' = messages
              /\ MapValues(messages') = getMessages
              /\ notifications' = <<>>
         ELSE /\ Len(messages') = Len(messages)
              /\ \A i \in 1..Len(messages) :
                   /\ messages'[i].key = messages[i].key
                   /\ messages[i].key # id => messages'[i].msg = messages[i].msg
                   /\ messages[i].key = id =>
                        \A f \in {"id", "content", "metadata"} :
                          messages'[i].msg[f] =
                            IF updates[f] # Absent THEN updates[f]
                            ELSE messages[i].msg[f]]_vars

\* updateMessage("a", ...) has just rewritten the first of two entries, which
\* is still the first, and both listeners were told.
C19_Witness ==
  /\ call = [op |-> "updateMessage", id |-> "a"]
  /\ Len(messages) = 2
  /\ messages[1].key = "a"
  /\ messages[1].msg = [id |-> "a", content |-> "y", metadata |-> "m"]
  /\ messages[2].key = "b"
  /\ Len(notifications) = 2

\* C20: every call of addMessage, addMessages, updateMessage on an id the
\* store holds, removeMessage and clear, whatever its arguments (removeMessage
\* of an id the store does not hold, addMessages of an empty list and clear of
\* an empty store included), calls every subscribed listener exactly once, with
\* a snapshot equal to getMessages() as the call left it.
C20_EveryMutatorNotifiesOnce ==
  [][/\ (\E message \in Messages : addMessage(message)) => NotifiedOnce
     /\ (\E msgs \in Batches : addMessages(msgs)) => NotifiedOnce
     /\ (\E id \in Ids, updates \in Partials :
           MapHas(messages, id) /\ updateMessage(id, updates)) => NotifiedOnce
     /\ (\E id \in Ids : removeMessage(id)) => NotifiedOnce
     /\ clear => NotifiedOnce]_vars

\* The ids the store holds entries for, in the order getMessages() lists them.
Keys(map) == [i \in 1..Len(map) |-> map[i].key]

IsPrefix(p, q) == Len(p) <= Len(q) /\ \A i \in 1..Len(p) : p[i] = q[i]

\* C21: getMessages() lists the entries in the order in which their ids were
\* first inserted, among the ids present: a call of addMessage, addMessages or
\* updateMessage leaves every id already present where it was and puts ids
\* that were not present (never inserted, or removed or cleared since) after
\* them; removeMessage and clear take ids away and move none.
C21_InsertionOrder ==
  [][call' # call \/ messages' # messages =>
       LET K == Keys(messages)
           K2 == Keys(messages')
       IN  /\ \A i, j \in 1..Len(K2) : K2[i] = K2[j] => i = j
           /\ call'.op \in {"addMessage", "addMessages", "updateMessage"} =>
                IsPrefix(K, K2)
           /\ call'.op = "addMessage" =>
                /\ MapHas(messages', call'.id)
                /\ MapGet(messages', call'.id).id = call'.id
           /\ call'.op = "updateMessage" => K2 = K
           /\ call'.op = "removeMessage" =>
                K2 = SelectSeq(K, LAMBDA k : k # call'.id)
           /\ call'.op = "clear" => K2 = <<>>
           /\ call'.op \in {"subscribe", "unsubscribe"} => messages' = messages]_vars

\* b was stored first and a second; addMessage has just overwritten b, which
\* is still listed first.
C21_Witness ==
  /\ call = [op |-> "addMessage", id |-> "b"]
  /\ Keys(messages) = <<"b", "a">>
  /\ messages[1].msg = [id |-> "b", content |-> "y", metadata |-> Absent]
  /\ messages[2].msg.id = "a"

\* ------------------------------------------------------ notification rounds

\* Every listener of the streaming state machine subscribed before the call
\* was called exactly once, in the Set's order, with the new state.
StreamNotifiedOnce ==
  streamNotifications' = [i \in 1..Len(streamListeners) |->
                            [listener |-> streamListeners[i], state |-> state']]

\* C22: in a notification round of the store or of the streaming state
\* machine, the listeners called are exactly those subscribed when the round
\* started, once each, whatever the listeners do to the registry during the
\* round (unsubscribe themselves or another listener, subscribe a new one).
C22_SnapshotThenIterate ==
  [][/\ (\/ clear
         \/ \E message \in Messages : addMessage(message)
         \/ \E msgs \in Batches : addMessages(msgs)
         \/ \E id \in Ids, updates \in Partials :
              MapHas(messages, id) /\ updateMessage(id, updates)
         \/ \E id \in Ids : MapHas(messages, id) /\ removeMessage(id))
          => NotifiedOnce
     /\ (\/ reset /\ hasChanged(INITIAL_STATE)
         \/ \E sessionId \in Sessions, content \in PartialContents :
              /\ onPartialContent(sessionId, content)
              /\ state' # state)
          => StreamNotifiedOnce]_vars

\* -------------------------------------------------- Streaming State Machine

Streaming(sessionId, content) ==
  [isStreaming |-> TRUE, partialContent |-> content, sessionId |-> sessionId]

\* C23: onComplete(s) resets the state to the initial one if and only if s is
\* the tracked session or no session is tracked; a completion for another
\* session leaves the state as it was and calls no listener.
C23_OnCompleteTrackedOnly ==
  [][\A sessionId \in Sessions :
       (streamCall'.op = "onComplete" /\ onComplete(sessionId)) =>
         IF state.sessionId = sessionId \/ state.sessionId = "null"
         THEN state' = INITIAL_STATE
         ELSE /\ state' = state
              /\ state'.isStreaming
              /\ streamNotifications' = <<>>
              /\ streamListeners' = streamListeners]_vars

\* onComplete("s2") has just returned while s1 is streaming: the state still
\* streams s1 and the subscribed listener was not called.
C23_Witness ==
  /\ streamCall = [op |-> "onComplete", sessionId |-> "s2"]
  /\ state.isStreaming
  /\ state.sessionId = "s1"
  /\ streamListeners # <<>>
  /\ streamNotifications = <<>>

\* C24: after onPartialContent(sessionId, content), from every state,
\* getState() is streaming, with the sessionId and the content given, for
\* every content (also one that differs from the stored content only in a
\* field of a block other than type and content).
C24_PartialContentOverwrites ==
  [][\A sessionId \in Sessions, content \in PartialContents :
       (streamCall'.op = "onPartialContent" /\ onPartialContent(sessionId, content)) =>
         getState' = Streaming(sessionId, content)]_vars

\* The comparison of setState: isStreaming, sessionId, and type and content
\* of the blocks, one by one.
SameState(a, b) ==
  /\ a.isStreaming = b.isStreaming
  /\ a.sessionId = b.sessionId
  /\ a.partialContent.null = b.partialContent.null
  /\ Len(a.partialContent.blocks) = Len(b.partialContent.blocks)
  /\ \A i \in 1..Len(a.partialContent.blocks) :
       /\ a.partialContent.blocks[i].type = b.partialContent.blocks[i].type
       /\ a.partialContent.blocks[i].content = b.partialContent.blocks[i].content

\* The operation asked for the state new: nothing happens when new compares
\* equal to the current state; otherwise new is stored and every listener is
\* called once with it.
NotifiesIffChanged(new) ==
  IF SameState(state, new)
  THEN state' = state /\ streamNotifications' = <<>>
  ELSE state' = new /\ StreamNotifiedOnce

\* C25: an operation of the streaming state machine notifies exactly when the
\* state it asks for differs from the current one under the comparison, and
\* then once, with the new state.
C25_NotifiesExactlyOnChange ==
  [][/\ \A sessionId \in Sessions, content \in PartialContents :
          (streamCall'.op = "onPartialContent" /\ onPartialContent(sessionId, content)) =>
            NotifiesIffChanged(Streaming(sessionId, content))
     /\ \A sessionId \in Sessions :
          (streamCall'.op = "onComplete" /\ onComplete(sessionId)
             /\ (state.sessionId = sessionId \/ state.sessionId = "null")) =>
            NotifiesIffChanged(INITIAL_STATE)
     /\ (streamCall'.op = "reset" /\ reset) => NotifiesIffChanged(INITIAL_STATE)]_vars

\* onPartialContent has just returned on a machine with a subscribed
\* listener and called nobody: its blocks compared equal to the stored ones.
C25_Witness ==
  /\ streamCall.op = "onPartialContent"
  /\ state.isStreaming
  /\ Len(state.partialContent.blocks) = 1
  /\ streamListeners # <<>>
  /\ streamNotifications = <<>>

\* The occurrences, in a list of items, of a value of a field.
Occurrences(items, field, v) == {i \in 1..Len(items) : getFieldValue(items[i], field) = v}
Minimum(S) == CHOOSE i \in S : \A j \in S : i <= j
Maximum(S) == CHOOSE i \in S : \A j \in S : i >= j

\* C26: with a single deduplication rule on a field, build returns exactly
\* one item per distinct value of that field among the tagged, concatenated
\* inputs: the last occurrence under strategy last, the earliest under
\* strategy first.
C26_OnePerDistinctValue ==
  (timeline.built /\ params.deduplicationRules.given
                  /\ Len(params.deduplicationRules.rules) = 1) =>
    LET rule == params.deduplicationRules.rules[1]
        inputs == allItems(params)
    IN  \A i \in 1..Len(inputs) :
          LET v == getFieldValue(inputs[i], rule.field)
              kept == IF rule.strategy = "last"
                      THEN Maximum(Occurrences(inputs, rule.field, v))
                      ELSE Minimum(Occurrences(inputs, rule.field, v))
              found == Occurrences(timeline.items, rule.field, v)
          IN  /\ Cardinality(found) = 1
              /\ \A j \in found : timeline.items[j] = inputs[kept]

\* The same for the fields whose values are strings, numbers, null or missing.
DedupOnPrimitiveField ==
  (timeline.built /\ params.deduplicationRules.given
                  /\ params.deduplicationRules.rules[1].field # "metadata") =>
    C26_OnePerDistinctValue

\* An item comes before another in the default order: by sequence ascending
\* (an item without a number after one with a number), then by createdAt, then
\* by id.
HasNumber(item) == item.sequence.k = "number"
SameSequence(a, b) ==
  \/ ~HasNumber(a) /\ ~HasNumber(b)
  \/ HasNumber(a) /\ HasNumber(b) /\ a.sequence.n = b.sequence.n
SequenceBefore(a, b) ==
  \/ HasNumber(a) /\ ~HasNumber(b)
  \/ HasNumber(a) /\ HasNumber(b) /\ a.sequence.n < b.sequence.n
DefaultBefore(a, b) ==
  \/ SequenceBefore(a, b)
  \/ /\ SameSequence(a, b)
     /\ \/ Rank(a.createdAt) < Rank(b.createdAt)
        \/ a.createdAt = b.createdAt /\ Rank(a.id) < Rank(b.id)

\* The last input with an id: the last event with it if there is one, else
\* the last message with it, tagged with the list it came from.
LastTagged(p, id) ==
  LET es == {i \in 1..Len(p.events) : p.events[i].id = id}
      ms == {i \in 1..Len(p.messages) : p.messages[i].id = id}
  IN  IF es # {} THEN [p.events[Maximum(es)] EXCEPT !.itemType = "event"]
      ELSE [p.messages[Maximum(ms)] EXCEPT !.itemType = "message"]

InputIds(p) == {p.messages[i].id : i \in 1..Len(p.messages)}
                 \cup {p.events[i].id : i \in 1..Len(p.events)}

\* C27: build without rules returns items of pairwise distinct ids, one for
\* every id of the inputs, which is the last occurrence of the id (an event
\* before a message of the same id), tagged message or event after the list
\* it came from, in the order of sequence, then createdAt, then id.
C27_DefaultRules ==
  (timeline.built /\ ~params.deduplicationRules.given /\ ~params.sortingRules.given) =>
    LET items == timeline.items
    IN  /\ \A j, k \in 1..Len(items) : j # k => items[j].id # items[k].id
        /\ {items[j].id : j \in 1..Len(items)} = InputIds(params)
        /\ \A j \in 1..Len(items) : items[j] = LastTagged(params, items[j].id)
        /\ \A j \in 1..Len(items) : items[j].itemType \in {"message", "event"}
        /\ \A j, k \in 1..Len(items) : j < k => DefaultBefore(items[j], items[k])

\* build without rules has returned an event that replaced a message of its
\* id, placed by createdAt among items that tie on sequence.
C27_Witness ==
  /\ timeline.built
  /\ ~params.deduplicationRules.given /\ ~params.sortingRules.given
  /\ \E i \in 1..Len(params.messages), e \in 1..Len(params.events) :
       params.messages[i].id = params.events[e].id
  /\ \E j, k \in 1..Len(timeline.items) :
       /\ j < k
       /\ SameSequence(timeline.items[j], timeline.items[k])
       /\ timeline.items[j].createdAt # timeline.items[k].createdAt

\* The value of a field is present: neither missing nor null.
Present(item, field) == getFieldValue(item, field).k \notin {"undefined", "null"}

SequencesOf(items) == [i \in 1..Len(items) |-> items[i].sequence]

\* C28: with one sorting rule on a field, asc or desc, every item whose value
\* for the field is missing or null comes after every item whose value is
\* present, and present numbers are in the rule's direction; sequences
\* [3, 1, 2] sorted asc come out as [1, 2, 3].
C28_MissingLastNumbersInDirection ==
  (timeline.built /\ params.sortingRules.given /\ Len(params.sortingRules.rules) = 1) =>
    LET rule == params.sortingRules.rules[1]
        items == timeline.items
    IN  /\ \A j, k \in 1..Len(items) :
             j < k =>
               /\ ~(~Present(items[j], rule.field) /\ Present(items[k], rule.field))
               /\ (HasNumber(items[j]) /\ HasNumber(items[k]) /\ rule.field = "sequence") =>
                    IF rule.direction = "asc"
                    THEN items[j].sequence.n <= items[k].sequence.n
                    ELSE items[j].sequence.n >= items[k].sequence.n
        /\ (/\ rule.field = "sequence" /\ rule.direction = "asc"
            /\ SequencesOf(params.messages) = <<Number(3), Number(1), Number(2)>>) =>
             SequencesOf(items) = <<Number(1), Number(2), Number(3)>>

\* build has sorted by sequence desc messages given as null, 1, 3: the result
\* is 3, 1, null.
C28_Witness ==
  /\ timeline.built
  /\ params.sortingRules.given
  /\ Len(params.sortingRules.rules) = 1
  /\ params.sortingRules.rules[1].field = "sequence"
  /\ params.sortingRules.rules[1].direction = "desc"
  /\ SequencesOf(params.messages) = <<Null, Number(1), Number(3)>>
  /\ SequencesOf(timeline.items) = <<Number(3), Number(1), Null>>

\* The rules in ascending priority, rules of one priority in the order they
\* were supplied.
InPriorityOrder(rules) ==
  LET n == Len(rules)
      f == CHOOSE g \in [1..n -> 1..n] :
             \A i, j \in 1..n :
               i < j => \/ rules[g[i]].priority < rules[g[j]].priority
                        \/ /\ rules[g[i]].priority = rules[g[j]].priority
                           /\ g[i] < g[j]
  IN  [i \in 1..n |-> rules[f[i]]]

\* What one rule says about two items: "skip" when both values are missing,
\* "equal" when both are present and the same, else which one goes first.
Verdict(a, b, rule) ==
  LET av == getFieldValue(a, rule.field)
      bv == getFieldValue(b, rule.field)
      less == IF av.k = "number" THEN av.n < bv.n ELSE Rank(av.s) < Rank(bv.s)
  IN  IF ~Present(a, rule.field) /\ ~Present(b, rule.field) THEN "skip"
      ELSE IF ~Present(a, rule.field) THEN "b first"
      ELSE IF ~Present(b, rule.field) THEN "a first"
      ELSE IF av = bv THEN "equal"
      ELSE IF less = (rule.direction = "asc") THEN "a first"
      ELSE "b first"

\* Of rules in priority order, the ones that decide between two items.
Deciding(a, b, ordered) ==
  {i \in 1..Len(ordered) : Verdict(a, b, ordered[i]) \in {"a first", "b first"}}

\* The place of an item in the deduplicated list, which for messages of
\* distinct ids under the default deduplication is the list of messages.
PlaceOf(item) == CHOOSE i \in 1..Len(params.messages) : params.messages[i].id = item.id

\* C29: the sorting rules are applied in ascending priority whatever the
\* order they are supplied in; of two items the first rule that tells them
\* apart decides (a rule on which both have missing values is skipped), and
\* items no rule tells apart keep their order from the deduplicated list.
C29_FirstDecidingRuleByPriority ==
  (timeline.built /\ params.sortingRules.given) =>
    LET ordered == InPriorityOrder(params.sortingRules.rules)
        items == timeline.items
    IN  /\ Len(items) = Len(params.messages)
        /\ \A j, k \in 1..Len(items) :
             j < k =>
               LET deciding == Deciding(items[j], items[k], ordered)
               IN  IF deciding = {}
                   THEN PlaceOf(items[j]) < PlaceOf(items[k])
                   ELSE Verdict(items[j], items[k], ordered[Minimum(deciding)]) = "a first"

\* build has sorted with two rules supplied in descending priority: two items
\* that both miss the value of the first rule in priority order were told
\* apart by the second, and two that no rule tells apart came out as given.
C29_Witness ==
  /\ timeline.built
  /\ params.sortingRules.given
  /\ Len(params.sortingRules.rules) = 2
  /\ params.sortingRules.rules[1].priority > params.sortingRules.rules[2].priority
  /\ \E j, k \in 1..Len(timeline.items) :
       /\ j < k
       /\ Verdict(timeline.items[j], timeline.items[k], params.sortingRules.rules[2]) = "skip"
       /\ Verdict(timeline.items[j], timeline.items[k], params.sortingRules.rules[1]) = "a first"
  /\ \E j, k \in 1..Len(timeline.items) :
       /\ j < k
       /\ Deciding(timeline.items[j], timeline.items[k],
                   InPriorityOrder(params.sortingRules.rules)) = {}

\* The same call of build without isStreaming and partialContent.
WithoutStreaming(p) == [p EXCEPT !.isStreaming = FALSE, !.partialContent = NullContent]

\* C30: build called with isStreaming = true and a partialContent that is
\* not null returns a sequence that holds the partial content: it differs
\* from what the same call without the two returns.
C30_PartialContentMerged ==
  (timeline.built /\ params.isStreaming /\ ~params.partialContent.null) =>
    timeline.items # buildItems(WithoutStreaming(params))

\* C31: the default normalizer never raises; it returns null for every input
\* that is not an object, and an event, never null, for every object.
C31_NullExactlyForNonObjects ==
  normalized.called =>
    /\ ~normalized.result.thrown
    /\ normalized.result.ok <=> rawInput.k = "object"

\* The same for the inputs whose type, sessionId, session_id, timestamp and
\* createdAt can be converted to strings.
NormalizesPrintable ==
  (normalized.called /\ (rawInput.k = "object" => rawInput.fields.type # Unprintable)) =>
    /\ ~normalized.result.thrown
    /\ normalized.result.ok <=> rawInput.k = "object"

\* C32, the last sentence: an event with empty sessionId is delivered to the
\* global subscribers and to no session subscriber.
C32_EmptySessionIdGlobalOnly ==
  (delivered.event.ok /\ delivered.event.sessionId = "") =>
    /\ delivered.global = allSubscribers
    /\ delivered.session = {}

\* The fallbacks of C32, read with "absent" and "else" as the code has them: a
\* type, sessionId or session_id that is falsy counts as absent, a payload or
\* data that is null or undefined counts as absent, a type or sessionId that is
\* not a string is converted to one.
FallbacksAsCoded ==
  (normalized.called /\ normalized.result.ok) =>
    LET in == rawInput.fields
        event == normalized.result
    IN  /\ event.type = IF Falsy(in.type) THEN "message" ELSE String(in.type)
        /\ event.sessionId = IF ~Falsy(in.sessionId) THEN String(in.sessionId)
                             ELSE IF ~Falsy(in.session_id) THEN String(in.session_id)
                             ELSE ""
        /\ event.payload = IF in.payload \notin {Undefined, Null} THEN in.payload
                           ELSE IF in.data \notin {Undefined, Null} THEN in.data
                           ELSE rawInput
        /\ event.sequence = IF in.sequence.k = "number" THEN in.sequence ELSE Undefined

\* The fallbacks read literally: absent means the object does not have the
\* field, and the input's type and sessionId are taken as they are.
FallbacksLiteral ==
  (normalized.called /\ normalized.result.ok) =>
    LET in == rawInput.fields
        event == normalized.result
    IN  /\ Str(event.type) = IF in.type = Undefined THEN Str("message") ELSE in.type
        /\ Str(event.sessionId) = IF in.sessionId # Undefined THEN in.sessionId
                                  ELSE IF in.session_id # Undefined THEN in.session_id
                                  ELSE Str("")

\* ------------------------------------------------------------ stale sockets

\* An event of socket s is handled in this step.
SocketEvent(s) ==
  \/ onerror(s)
  \/ \E wasClean \in BOOLEAN : onclose(s, wasClean)
  \/ delivered'.raw \in RawFrames /\ onmessage(s, delivered'.raw)

\* C33: an event of a socket that is not the transport's current socket has
\* no effect: it does not change the status, does not stop the heartbeat,
\* schedules no reconnect and delivers nothing to a subscriber.
C33_StaleSocketEventsInert ==
  [][\A s \in SocketIds :
       (s # ws /\ SocketEvent(s)) =>
         /\ status' = status
         /\ heartbeatTimer' = heartbeatTimer
         /\ reconnectTimer' = reconnectTimer
         /\ delivered'.session = {} /\ delivered'.global = {}]_vars

\* The deliveries of C33 alone.
StaleSocketDeliversNothing ==
  [][\A s \in SocketIds :
       (s # ws /\ delivered'.raw \in RawFrames /\ onmessage(s, delivered'.raw)) =>
         delivered'.session = {} /\ delivered'.global = {}]_vars

\* C34: every promise returned by connect() eventually settles, under every
\* interleaving of the socket's events with calls of disconnect().
C34_EveryPromiseSettles ==
  \A s \in SocketIds :
    (sock[s].prom = "pending") ~> (sock[s].prom \in {"resolved", "rejected"})

\* The sockets created by the transport that are opening or open (their
\* handlers are never detached).
LiveSockets == {s \in SocketIds : sock[s].ph \in {"connecting", "open"}}

\* C35: at any time at most one socket created by the transport is opening or
\* open with its handlers attached.
C35_AtMostOneLiveSocket == Cardinality(LiveSockets) <= 1

\* The same while no event of a socket that is not current has been handled:
\* every socket other than the current one is unused or closed.
OneLiveSocketWithoutStaleEvents ==
  (\A s \in SocketIds \ {ws} : sock[s].ph \in {"unused", "closed"}) =>
    Cardinality(LiveSockets) <= 1

\* The topics the local registries hold: the sessions with a callback, and
\* All when there is a global callback.
LocalTopics ==
  {sid \in Sessions : sessionSubscribers[sid] # {}}
    \cup (IF allSubscribers # {} THEN {All} ELSE {})

\* C36: when the current socket opens after a reconnect attempt, the server
\* has been sent on it a subscribe frame for every session that has a callback
\* and the global subscribe frame if there is a global callback: what is
\* announced on the current socket matches the local registries.
C36_ResubscribedAfterReconnect ==
  [][\A s \in SocketIds :
       (onopen(s) /\ s = ws /\ reconnectAttempts > 0) => serverSubs' = LocalTopics']_vars

\* C37: every stored entry is keyed by its own id: getMessage(k), when
\* defined, has id = k, and getMessages() holds no two messages of one id, also
\* after updateMessage calls whose partial has an id.
C37_KeyedByOwnId ==
  /\ \A i \in 1..Len(messages) : messages[i].msg.id = messages[i].key
  /\ \A i, j \in 1..Len(getMessages) : i # j => getMessages[i].id # getMessages[j].id

\* The calls a listener received in the last round.
CallsOf(l) == SelectSeq(notifications, LAMBDA c : c.listener = l)

\* C38: when the notifications of a mutation have completed, the last
\* snapshot each subscribed listener received is the store's getMessages(),
\* also when a listener has called the store from inside its callback.
C38_LastSnapshotIsCurrent ==
  \A l \in Subscribed :
    CallsOf(l) # <<>> => CallsOf(l)[Len(CallsOf(l))].snapshot = getMessages

\* The same with listeners that return at once.
LastSnapshotIsCurrentWhenPassive ==
  behaviour = Passive => C38_LastSnapshotIsCurrent

\* C39: in every reachable state of the streaming state machine isStreaming
\* is true exactly when sessionId is not null and exactly when partialContent
\* is not null; the state is the initial state or a streaming state for one
\* session; and reset() leaves the initial state, whatever the state was.
C39_FieldsAgree ==
  /\ state.isStreaming <=> state.sessionId # "null"
  /\ state.isStreaming <=> ~state.partialContent.null
  /\ \/ state = INITIAL_STATE
     \/ /\ state.isStreaming
        /\ state.sessionId \in Sessions
        /\ state.partialContent \in PartialContents
  /\ streamCall.op = "reset" => state = INITIAL_STATE

\* reset() has brought a streaming state back to the initial state: the
\* listener was told of the change.
C39_Witness ==
  /\ streamCall.op = "reset"
  /\ state = INITIAL_STATE
  /\ streamNotifications # <<>>

\* C40: for every list of deduplication rules the output of build holds each
\* input item at most once and has no more items than the input, and an item
\* is dropped only in favour of an item of the output that has the same value
\* of a rule's field: items that lack the field are not merged.
C40_DedupOnlyMergesEqualValues ==
  (timeline.built /\ params.deduplicationRules.given) =>
    LET rules == params.deduplicationRules.rules
        inputs == allItems(params)
        items == timeline.items
    IN  /\ \A j, k \in 1..Len(items) : j # k => items[j] # items[k]
        /\ Len(items) <= Len(inputs)
        /\ \A i \in 1..Len(inputs) :
             \/ \E j \in 1..Len(items) : items[j] = inputs[i]
             \/ \E r \in 1..Len(rules), j \in 1..Len(items) :
                  /\ Present(inputs[i], rules[r].field)
                  /\ getFieldValue(inputs[i], rules[r].field)
                       = getFieldValue(items[j], rules[r].field)

\* The same, for one rule on a field that every item has.
DedupSafeForOneRuleOnId ==
  (timeline.built /\ params.deduplicationRules.given
     /\ Len(params.deduplicationRules.rules) = 1
     /\ params.deduplicationRules.rules[1].field = "id") =>
    C40_DedupOnlyMergesEqualValues
====
